---- MODULE Spec2Model ----
(***************************************************************************)
(* A model of IoTDataKit: the time-ordered container IoTData<T>            *)
(* (include/IoTData.h) and the named collection DataSet<T>                 *)
(* (include/DataSet.h).  The element type is instantiated at T = int, so   *)
(* every value is an integer and static_cast<T> of a double truncates      *)
(* toward zero.  A Timestamp is a count of clock ticks since the epoch,    *)
(* TicksPerSecond ticks to the second, so that the conversions to and from *)
(* whole epoch seconds lose what the code loses.                           *)
(***************************************************************************)
EXTENDS Integers, Sequences, FiniteSets

VARIABLES alive, data, timestamps, file, exported, seriesMap, jsonFile, exportedSet, op,
          returned

vars == <<alive, data, timestamps, file, exported, seriesMap, jsonFile, exportedSet, op,
          returned>>

seriesVars == <<alive, data, timestamps, file, exported>>

dataSetVars == <<seriesMap, jsonFile, exportedSet>>

(* ------------------------------ bounds --------------------------------- *)

\* Longest series the model builds.
MaxLen == 3

\* Resolution of the modelled clock (system_clock counts far finer ticks).
TicksPerSecond == 2

\* Timestamps and values the caller passes in.
Ticks == 0 .. 2
Values == {1, 2}

(* --------------------------- helper operators -------------------------- *)

Abs(x) == IF x < 0 THEN -x ELSE x

SeqsUpTo(S, n) == UNION {[1 .. k -> S] : k \in 0 .. n}

Range(s) == {s[i] : i \in 1 .. Len(s)}

\* Truncating division, as an integral conversion or duration_cast does it.
TruncDiv(a, b) == IF a >= 0 THEN a \div b ELSE -((-a) \div b)

(* ------------------------------ errors --------------------------------- *)

\* The exception classes of include/IoTDataException.h, with the message
\* that tells two throws of one class apart.
NoError == [class |-> "none", what |-> "none"]
Error(c, w) == [class |-> c, what |-> w]

(* ------------------------------ Series --------------------------------- *)

\* IoTData::ensureSorted: std::sort of the (timestamp, value) pairs by
\* timestamp.  std::sort leaves the order of equal timestamps unspecified:
\* every arrangement ordered by timestamp is an outcome.
IndexPerms(n) == {p \in [1 .. n -> 1 .. n] : \A i, j \in 1 .. n : i # j => p[i] # p[j]}

IsSortedSeq(t) == \A i \in 1 .. Len(t) - 1 : t[i] <= t[i + 1]

\* ensureSorted that writes back the sorted timestamps and not the values.
ensureSortedLeavesValues(d, t) ==
    IF Len(d) # Len(t)
    THEN {[err |-> Error("IoTDataException", "InternalError"), data |-> d, timestamps |-> t]}
    ELSE {[err |-> NoError,
           data |-> d,
           timestamps |-> [i \in 1 .. Len(t) |-> t[p[i]]]] :
            p \in {q \in IndexPerms(Len(t)) :
                     IsSortedSeq([i \in 1 .. Len(t) |-> t[q[i]]])}}

ensureSorted(d, t) ==
    IF Len(d) # Len(t)
    THEN {[err |-> Error("IoTDataException", "InternalError"), data |-> d, timestamps |-> t]}
    ELSE {[err |-> NoError,
           data |-> [i \in 1 .. Len(d) |-> d[p[i]]],
           timestamps |-> [i \in 1 .. Len(t) |-> t[p[i]]]] :
            p \in {q \in IndexPerms(Len(t)) :
                     IsSortedSeq([i \in 1 .. Len(t) |-> t[q[i]]])}}

\* IoTData(initialData): timestamps are epoch + i seconds.
FromTimeT(sec) == sec * TicksPerSecond

AutoTimestamps(n) == [i \in 1 .. n |-> FromTimeT(i - 1)]

\* IoTData(initialData, initialTimestamps): the outcomes of the constructor.
IoTDataCtor(v, t) ==
    IF Len(v) # Len(t)
    THEN {[err |-> Error("IoTDataException", "SizeMismatch"), data |-> <<>>, timestamps |-> <<>>]}
    ELSE ensureSorted(v, t)

\* appendData with the new timestamp compared with itself: it never sorts.
appendDataNeverSorts(d, t, newData, timestamp) ==
    LET d1 == Append(d, newData)
        t1 == Append(t, timestamp)
    IN  IF Len(t1) > 1 /\ timestamp < t1[Len(t1)]
        THEN ensureSorted(d1, t1)
        ELSE {[err |-> NoError, data |-> d1, timestamps |-> t1]}

\* IoTData::appendData: push, then sort only when the new timestamp is
\* earlier than the one that was last.
appendData(d, t, newData, timestamp) ==
    LET d1 == Append(d, newData)
        t1 == Append(t, timestamp)
    IN  IF Len(t1) > 1 /\ timestamp < t1[Len(t1) - 1]
        THEN ensureSorted(d1, t1)
        ELSE {[err |-> NoError, data |-> d1, timestamps |-> t1]}

\* The predicates handed to filterOutliers; TRUE means "remove".
Predicates == {"AbsGreaterThanOne", "Negative", "Always"}

Holds(predicate, v) ==
    CASE predicate = "AbsGreaterThanOne" -> Abs(v) > 1
      [] predicate = "Negative" -> v < 0
      [] OTHER -> TRUE

\* The loop of filterOutliers: the indices kept, in order.
RECURSIVE KeptIndices(_, _, _)
KeptIndices(d, predicate, i) ==
    IF i > Len(d) THEN <<>>
    ELSE IF ~Holds(predicate, d[i])
         THEN <<i>> \o KeptIndices(d, predicate, i + 1)
         ELSE KeptIndices(d, predicate, i + 1)

\* filterOutliers that drops the values and forgets their timestamps.
filterOutliersKeepsTimestamps(d, t, predicate) ==
    IF d = <<>> THEN [err |-> NoError, data |-> d, timestamps |-> t]
    ELSE IF Len(d) # Len(t)
    THEN [err |-> Error("IoTDataException", "InternalError"), data |-> d, timestamps |-> t]
    ELSE LET keep == KeptIndices(d, predicate, 1)
         IN  [err |-> NoError,
              data |-> [i \in 1 .. Len(keep) |-> d[keep[i]]],
              timestamps |-> t]

\* filterOutliers that never removes the first sample.
filterOutliersKeepsFirst(d, t, predicate) ==
    IF d = <<>> THEN [err |-> NoError, data |-> d, timestamps |-> t]
    ELSE IF Len(d) # Len(t)
    THEN [err |-> Error("IoTDataException", "InternalError"), data |-> d, timestamps |-> t]
    ELSE LET keep == IF Holds(predicate, d[1])
                     THEN <<1>> \o KeptIndices(d, predicate, 1)
                     ELSE KeptIndices(d, predicate, 1)
         IN  [err |-> NoError,
              data |-> [i \in 1 .. Len(keep) |-> d[keep[i]]],
              timestamps |-> [i \in 1 .. Len(keep) |-> t[keep[i]]]]

filterOutliers(d, t, predicate) ==
    IF d = <<>> THEN [err |-> NoError, data |-> d, timestamps |-> t]
    ELSE IF Len(d) # Len(t)
    THEN [err |-> Error("IoTDataException", "InternalError"), data |-> d, timestamps |-> t]
    ELSE LET keep == KeptIndices(d, predicate, 1)
         IN  [err |-> NoError,
              data |-> [i \in 1 .. Len(keep) |-> d[keep[i]]],
              timestamps |-> [i \in 1 .. Len(keep) |-> t[keep[i]]]]

\* scaleData: a NaN or infinite factor is refused, any other multiplies.
ScaleFactors ==
    {[kind |-> "NaN", val |-> 0], [kind |-> "Inf", val |-> 0],
     [kind |-> "finite", val |-> 0]}

\* scaleData that multiplies by whatever factor it is given, zeroing the
\* values on a factor that is not a number.
scaleDataAcceptsAnyFactor(d, scaleFactor) ==
    [err |-> NoError, data |-> [i \in 1 .. Len(d) |-> d[i] * scaleFactor.val]]

scaleData(d, scaleFactor) ==
    IF scaleFactor.kind \in {"NaN", "Inf"}
    THEN [err |-> Error("IoTDataException", "InvalidValue"), data |-> d]
    ELSE [err |-> NoError, data |-> [i \in 1 .. Len(d) |-> d[i] * scaleFactor.val]]

\* calculateMean and calculateStandardDeviation over integers, kept exact:
\* with n values of sum S, mean = S/n and stdev = sqrt(Q/n^3) where
\* Q = sum of (n*v - S)^2.
RECURSIVE SumSeq(_)
SumSeq(s) == IF s = <<>> THEN 0 ELSE Head(s) + SumSeq(Tail(s))

SumSquaredDiffN(d) ==
    LET n == Len(d)
        S == SumSeq(d)
    IN  SumSeq([i \in 1 .. n |-> (n * d[i] - S) * (n * d[i] - S)])

\* static_cast<T>((value - mean) / stdev): the quotient is
\* (n*v - S) * sqrt(n / Q), truncated toward zero.
NormalizedValue(d, v) ==
    LET n == Len(d)
        x == n * v - SumSeq(d)
        Q == SumSquaredDiffN(d)
        k == CHOOSE m \in 0 .. n :
               /\ m * m * Q <= x * x * n
               /\ (m + 1) * (m + 1) * Q > x * x * n
    IN  IF x < 0 THEN -k ELSE k

normalizeData(d) ==
    IF Len(d) < 2
    THEN [err |-> Error("IoTDataInsufficientException", "TooFewPoints"), data |-> d]
    ELSE IF SumSquaredDiffN(d) = 0
    THEN [err |-> Error("IoTDataInsufficientException", "ZeroStdDev"), data |-> d]
    ELSE [err |-> NoError, data |-> [i \in 1 .. Len(d) |-> NormalizedValue(d, d[i])]]

\* trimData: trimCount = (size_t)(size * percentage / 200).
TrimPercentages == {-1, 0, 50, 70, 99, 100}

\* trimData with both shares taken from the start of the Series.
trimDataFromStartOnly(d, t, trimPercentage) ==
    IF trimPercentage < 0 \/ trimPercentage >= 100
    THEN [err |-> Error("std::out_of_range", "RangeError"), data |-> d, timestamps |-> t]
    ELSE IF d = <<>> THEN [err |-> NoError, data |-> d, timestamps |-> t]
    ELSE LET totalSize == Len(d)
             trimCount == (totalSize * trimPercentage) \div 200
         IN  IF trimCount * 2 >= totalSize
             THEN [err |-> NoError, data |-> <<>>, timestamps |-> <<>>]
             ELSE [err |-> NoError,
                   data |-> SubSeq(d, 2 * trimCount + 1, Len(d)),
                   timestamps |-> SubSeq(t, 2 * trimCount + 1, Len(t))]

\* trimData with the share of each end rounded up to a whole sample.
trimDataRoundsUp(d, t, trimPercentage) ==
    IF trimPercentage < 0 \/ trimPercentage >= 100
    THEN [err |-> Error("std::out_of_range", "RangeError"), data |-> d, timestamps |-> t]
    ELSE IF d = <<>> THEN [err |-> NoError, data |-> d, timestamps |-> t]
    ELSE LET totalSize == Len(d)
             trimCount == (totalSize * trimPercentage + 199) \div 200
         IN  IF trimCount * 2 >= totalSize
             THEN [err |-> NoError, data |-> <<>>, timestamps |-> <<>>]
             ELSE [err |-> NoError,
                   data |-> SubSeq(d, trimCount + 1, Len(d) - trimCount),
                   timestamps |-> SubSeq(t, trimCount + 1, Len(t) - trimCount)]

trimData(d, t, trimPercentage) ==
    IF trimPercentage < 0 \/ trimPercentage >= 100
    THEN [err |-> Error("std::out_of_range", "RangeError"), data |-> d, timestamps |-> t]
    ELSE IF d = <<>> THEN [err |-> NoError, data |-> d, timestamps |-> t]
    ELSE LET totalSize == Len(d)
             trimCount == (totalSize * trimPercentage) \div 200
         IN  IF trimCount * 2 >= totalSize
             THEN [err |-> NoError, data |-> <<>>, timestamps |-> <<>>]
             ELSE [err |-> NoError,
                   data |-> SubSeq(d, trimCount + 1, Len(d) - trimCount),
                   timestamps |-> SubSeq(t, trimCount + 1, Len(t) - trimCount)]

(* ---------------------------- T = double ------------------------------- *)

\* The functions that compute in double are modelled on a binary
\* floating-point format with a significand of MantissaBits bits, rounded
\* to nearest, ties to even, as IEEE 754 double rounds with 53 bits.  The
\* exponent is not bounded.  A finite value is m * 2^e, kept with m odd (or
\* m = 0, e = 0); NaN is the one non-finite value.
MantissaBits == 3

Fin(m, e) == [kind |-> "finite", m |-> m, e |-> e]

NaN == [kind |-> "nan", m |-> 0, e |-> 0]

IsNanOrInf(x) == x.kind # "finite"

RECURSIVE Pow2(_)
Pow2(k) == IF k <= 0 THEN 1 ELSE 2 * Pow2(k - 1)

RECURSIVE Canon(_, _)
Canon(m, e) ==
    IF m = 0 THEN Fin(0, 0)
    ELSE IF m % 2 = 0 THEN Canon(m \div 2, e + 1)
    ELSE Fin(m, e)

\* (a / b) * 2^e for a >= 0 and b > 0, rounded to MantissaBits bits.
RECURSIVE RoundMag(_, _, _)
RoundMag(a, b, e) ==
    IF a = 0 THEN Fin(0, 0)
    ELSE IF a >= b * Pow2(MantissaBits) THEN RoundMag(a, 2 * b, e + 1)
    ELSE IF a < b * Pow2(MantissaBits - 1) THEN RoundMag(2 * a, b, e - 1)
    ELSE LET q == a \div b
             r == a % b
         IN  IF 2 * r > b \/ (2 * r = b /\ q % 2 = 1)
             THEN Canon(q + 1, e)
             ELSE Canon(q, e)

FNeg(x) == IF IsNanOrInf(x) THEN NaN ELSE Fin(-x.m, x.e)

RoundRat(a, b, e) == IF a < 0 THEN FNeg(RoundMag(-a, b, e)) ELSE RoundMag(a, b, e)

\* static_cast<double> of an integer or a size_t.
ToDouble(n) == RoundRat(n, 1, 0)

FAdd(x, y) ==
    IF IsNanOrInf(x) \/ IsNanOrInf(y) THEN NaN
    ELSE LET e0 == IF x.e < y.e THEN x.e ELSE y.e
         IN  RoundRat(x.m * Pow2(x.e - e0) + y.m * Pow2(y.e - e0), 1, e0)

FSub(x, y) == FAdd(x, FNeg(y))

FMul(x, y) ==
    IF IsNanOrInf(x) \/ IsNanOrInf(y) THEN NaN
    ELSE RoundRat(x.m * y.m, 1, x.e + y.e)

\* x / y; a zero divisor gives a non-finite quotient.
FDiv(x, y) ==
    IF IsNanOrInf(x) \/ IsNanOrInf(y) \/ y.m = 0 THEN NaN
    ELSE IF y.m < 0 THEN RoundRat(-x.m, -y.m, x.e - y.e)
    ELSE RoundRat(x.m, y.m, x.e - y.e)

\* The comparisons of double: every comparison with NaN but != is false.
FLess(x, y) ==
    /\ ~IsNanOrInf(x)
    /\ ~IsNanOrInf(y)
    /\ LET e0 == IF x.e < y.e THEN x.e ELSE y.e
       IN  x.m * Pow2(x.e - e0) < y.m * Pow2(y.e - e0)

FEqual(x, y) == ~IsNanOrInf(x) /\ ~IsNanOrInf(y) /\ x = y

\* std::sqrt, correctly rounded: the integer square root of the significand
\* scaled to more than MantissaBits + 1 bits, with what is left over made a
\* half below the rounding position.
RECURSIVE ScaleUp(_, _)
ScaleUp(m, k) ==
    IF m >= Pow2(2 * MantissaBits + 2) THEN [m |-> m, k |-> k]
    ELSE ScaleUp(4 * m, k + 1)

FSqrt(x) ==
    IF IsNanOrInf(x) \/ x.m < 0 THEN NaN
    ELSE IF x.m = 0 THEN Fin(0, 0)
    ELSE LET odd == x.e % 2 = 1
             m0 == IF odd THEN 2 * x.m ELSE x.m
             e0 == IF odd THEN x.e - 1 ELSE x.e
             sc == ScaleUp(m0, 0)
             t == CHOOSE n \in 0 .. sc.m : n * n <= sc.m /\ (n + 1) * (n + 1) > sc.m
         IN  RoundRat(IF t * t = sc.m THEN 2 * t ELSE 2 * t + 1, 2, (e0 \div 2) - sc.k)

\* A call that returns a value: the error thrown, or the value in a
\* one-element sequence.
Thrown(c, w) == [err |-> Error(c, w), value |-> <<>>]

Returned(v) == [err |-> NoError, value |-> <<v>>]

\* The loop of calculateMean: each value is checked, then added.
RECURSIVE MeanSum(_, _, _)
MeanSum(d, i, sum) ==
    IF i > Len(d) THEN Returned(sum)
    ELSE IF IsNanOrInf(d[i]) THEN Thrown("IoTDataException", "InvalidValue")
    ELSE MeanSum(d, i + 1, FAdd(sum, d[i]))

calculateMean(d) ==
    IF d = <<>> THEN Thrown("IoTDataEmptyException", "EmptyData")
    ELSE LET s == MeanSum(d, 1, Fin(0, 0))
         IN  IF s.err # NoError THEN s
             ELSE IF IsNanOrInf(s.value[1]) THEN Thrown("IoTDataException", "InvalidValue")
             ELSE Returned(FDiv(s.value[1], ToDouble(Len(d))))

RECURSIVE SumSquaredDiff(_, _, _, _)
SumSquaredDiff(d, mean, i, acc) ==
    IF i > Len(d) THEN acc
    ELSE LET diff == FSub(d[i], mean)
         IN  SumSquaredDiff(d, mean, i + 1, FAdd(acc, FMul(diff, diff)))

calculateStandardDeviation(d) ==
    IF d = <<>> THEN Thrown("IoTDataInsufficientException", "InsufficientData")
    ELSE IF Len(d) = 1 THEN Returned(Fin(0, 0))
    ELSE LET mean == calculateMean(d)
         IN  IF mean.err # NoError THEN mean
             ELSE LET sumSquaredDiff == SumSquaredDiff(d, mean.value[1], 1, Fin(0, 0))
                  IN  IF IsNanOrInf(sumSquaredDiff)
                      THEN Thrown("IoTDataException", "InvalidValue")
                      ELSE Returned(FSqrt(FDiv(sumSquaredDiff, ToDouble(Len(d)))))

\* normalizeData of IoTData<double>: static_cast<T> is the identity.
normalizeDataDouble(d) ==
    IF Len(d) < 2
    THEN [err |-> Error("IoTDataInsufficientException", "TooFewPoints"), data |-> d]
    ELSE LET mean == calculateMean(d)
             stdev == calculateStandardDeviation(d)
         IN  IF mean.err # NoError THEN [err |-> mean.err, data |-> d]
             ELSE IF stdev.err # NoError THEN [err |-> stdev.err, data |-> d]
             ELSE IF stdev.value[1] = Fin(0, 0)
             THEN [err |-> Error("IoTDataInsufficientException", "ZeroStdDev"), data |-> d]
             ELSE IF IsNanOrInf(stdev.value[1])
             THEN [err |-> Error("IoTDataException", "InvalidValue"), data |-> d]
             ELSE [err |-> NoError,
                   data |-> [i \in 1 .. Len(d) |->
                               FDiv(FSub(d[i], mean.value[1]), stdev.value[1])]]

\* min and max of IoTData<double>: NaN entries are passed over.
RECURSIVE MinLoop(_, _, _, _)
MinLoop(d, i, current_min, found_valid) ==
    IF i > Len(d)
    THEN IF found_valid THEN Returned(current_min)
         ELSE Thrown("IoTDataException", "InvalidValue")
    ELSE IF IsNanOrInf(d[i]) THEN MinLoop(d, i + 1, current_min, found_valid)
    ELSE IF ~found_valid \/ FLess(d[i], current_min) THEN MinLoop(d, i + 1, d[i], TRUE)
    ELSE MinLoop(d, i + 1, current_min, TRUE)

min(d) ==
    IF d = <<>> THEN Thrown("IoTDataEmptyException", "EmptyData")
    ELSE MinLoop(d, 1, Fin(0, 0), FALSE)

RECURSIVE MaxLoop(_, _, _, _)
MaxLoop(d, i, current_max, found_valid) ==
    IF i > Len(d)
    THEN IF found_valid THEN Returned(current_max)
         ELSE Thrown("IoTDataException", "InvalidValue")
    ELSE IF IsNanOrInf(d[i]) THEN MaxLoop(d, i + 1, current_max, found_valid)
    ELSE IF ~found_valid \/ FLess(current_max, d[i]) THEN MaxLoop(d, i + 1, d[i], TRUE)
    ELSE MaxLoop(d, i + 1, current_max, TRUE)

max(d) ==
    IF d = <<>> THEN Thrown("IoTDataEmptyException", "EmptyData")
    ELSE MaxLoop(d, 1, Fin(0, 0), FALSE)

\* median: std::sort of a copy.  With a NaN among the values operator< is
\* no strict weak ordering and the order std::sort leaves is not defined:
\* every arrangement of the copy is an outcome.
SortedCopies(d) ==
    {[i \in 1 .. Len(d) |-> d[p[i]]] :
        p \in {q \in IndexPerms(Len(d)) :
                 \/ \E i \in 1 .. Len(d) : IsNanOrInf(d[i])
                 \/ \A i \in 1 .. Len(d) - 1 : ~FLess(d[q[i + 1]], d[q[i]])}}

median(d) ==
    IF d = <<>> THEN {Thrown("IoTDataEmptyException", "EmptyData")}
    ELSE {LET n == Len(d)
          IN  IF n % 2 # 0 THEN Returned(sortedData[(n \div 2) + 1])
              ELSE LET mid1 == sortedData[n \div 2]
                       mid2 == sortedData[(n \div 2) + 1]
                   IN  IF IsNanOrInf(mid1) \/ IsNanOrInf(mid2)
                       THEN Thrown("IoTDataException", "InvalidValue")
                       ELSE Returned(FDiv(FAdd(mid1, mid2), ToDouble(2))) :
          sortedData \in SortedCopies(d)}

\* calculateMovingAverage: the sum of the first window, then the sum
\* carried along, the value that leaves subtracted and the one that enters
\* added.
RECURSIVE FirstWindow(_, _, _, _)
FirstWindow(d, windowSize, i, currentSum) ==
    IF i > windowSize THEN Returned(currentSum)
    ELSE IF IsNanOrInf(d[i]) THEN Thrown("IoTDataException", "InvalidValue")
    ELSE FirstWindow(d, windowSize, i + 1, FAdd(currentSum, d[i]))

RECURSIVE SlideWindow(_, _, _, _, _)
SlideWindow(d, windowSize, i, currentSum, movingAverage) ==
    IF i > Len(d) THEN Returned(movingAverage)
    ELSE IF IsNanOrInf(d[i]) \/ IsNanOrInf(d[i - windowSize])
    THEN Thrown("IoTDataException", "InvalidValue")
    ELSE LET nextSum == FAdd(FSub(currentSum, d[i - windowSize]), d[i])
         IN  IF IsNanOrInf(nextSum) THEN Thrown("IoTDataException", "InvalidValue")
             ELSE SlideWindow(d, windowSize, i + 1, nextSum,
                              Append(movingAverage, FDiv(nextSum, ToDouble(windowSize))))

calculateMovingAverage(d, windowSize) ==
    IF d = <<>> THEN Thrown("IoTDataEmptyException", "EmptyData")
    ELSE IF windowSize = 0 THEN Thrown("IoTDataInsufficientException", "InsufficientData")
    ELSE IF windowSize > Len(d) THEN Thrown("IoTDataInsufficientException", "InsufficientData")
    ELSE LET first == FirstWindow(d, windowSize, 1, Fin(0, 0))
         IN  IF first.err # NoError THEN first
             ELSE SlideWindow(d, windowSize, windowSize + 1, first.value[1],
                              <<FDiv(first.value[1], ToDouble(windowSize))>>)

\* calculateWindowedMean: the window grows to windowSize, then slides.
RECURSIVE WindowedLoop(_, _, _, _, _)
WindowedLoop(d, windowSize, i, currentSum, windowedMean) ==
    IF i > Len(d) THEN Returned(windowedMean)
    ELSE IF IsNanOrInf(d[i]) THEN Thrown("IoTDataException", "InvalidValue")
    ELSE LET added == FAdd(currentSum, d[i])
         IN  IF i > windowSize
             THEN IF IsNanOrInf(d[i - windowSize])
                  THEN Thrown("IoTDataException", "InvalidValue")
                  ELSE LET nextSum == FSub(added, d[i - windowSize])
                       IN  IF IsNanOrInf(nextSum)
                           THEN Thrown("IoTDataException", "InvalidValue")
                           ELSE WindowedLoop(d, windowSize, i + 1, nextSum,
                                             Append(windowedMean,
                                                    FDiv(nextSum, ToDouble(windowSize))))
             ELSE IF IsNanOrInf(added) THEN Thrown("IoTDataException", "InvalidValue")
             ELSE WindowedLoop(d, windowSize, i + 1, added,
                               Append(windowedMean, FDiv(added, ToDouble(i))))

calculateWindowedMean(d, windowSize) ==
    IF d = <<>> THEN Thrown("IoTDataEmptyException", "EmptyData")
    ELSE IF windowSize = 0 THEN Thrown("IoTDataInsufficientException", "InsufficientData")
    ELSE WindowedLoop(d, windowSize, 1, Fin(0, 0), <<>>)

\* resampleData: its body initialises a Timestamp from a time_point counted
\* in duration<double> (IoTData.h:664), a conversion std::chrono does not
\* have.  The member cannot be instantiated for any T: a program with a
\* call to it is not built and the call has no outcome at run time.
resampleData(d, t, targetSize) == Thrown("ill-formed", "NoTimePointConversion")

\* enum class InterpolationMethod.
Methods == {"LINEAR", "NEAREST_NEIGHBOR"}

\* std::lower_bound(timestamps.begin(), timestamps.end(), t): the first
\* index whose timestamp is not less than t, Len + 1 for end().
LowerBound(t, target) ==
    IF \E i \in 1 .. Len(t) : t[i] >= target
    THEN CHOOSE i \in 1 .. Len(t) :
           /\ t[i] >= target
           /\ \A j \in 1 .. i - 1 : t[j] < target
    ELSE Len(t) + 1

\* std::chrono::duration<double>(ticks).count(): the ticks in seconds.
DurationSeconds(ticks) == FDiv(ToDouble(ticks), ToDouble(TicksPerSecond))

\* The body of the loop of interpolateData with every query put through
\* the interpolation formula, the comparisons with t1 and t0 left out.
InterpolateAtAlwaysComputes(d, t, target, method) ==
    LET it == LowerBound(t, target)
    IN  IF it = 1 THEN Returned(d[1])
        ELSE IF it = Len(t) + 1 THEN Returned(d[Len(d)])
        ELSE LET t0 == t[it - 1]
                 t1 == t[it]
                 y0 == d[it - 1]
                 y1 == d[it]
             IN  IF method = "LINEAR"
                 THEN LET factor == FDiv(DurationSeconds(target - t0),
                                         DurationSeconds(t1 - t0))
                          interpolatedValue == FAdd(y0, FMul(factor, FSub(y1, y0)))
                      IN  IF IsNanOrInf(interpolatedValue)
                          THEN Thrown("IoTDataException", "InvalidValue")
                          ELSE Returned(interpolatedValue)
                 ELSE Returned(IF target - t0 <= t1 - target THEN y0 ELSE y1)

\* The body of the loop of interpolateData with the later sample taken when
\* the query is as near to both.
InterpolateAtTieTakesLater(d, t, target, method) ==
    LET it == LowerBound(t, target)
    IN  IF it = 1 THEN Returned(d[1])
        ELSE IF it = Len(t) + 1 THEN Returned(d[Len(d)])
        ELSE LET t0 == t[it - 1]
                 t1 == t[it]
                 y0 == d[it - 1]
                 y1 == d[it]
             IN  IF target = t1 THEN Returned(y1)
                 ELSE IF target = t0 THEN Returned(y0)
                 ELSE IF method = "LINEAR"
                 THEN IF t1 = t0 THEN Returned(y0)
                      ELSE LET factor == FDiv(DurationSeconds(target - t0),
                                              DurationSeconds(t1 - t0))
                               interpolatedValue == FAdd(y0, FMul(factor, FSub(y1, y0)))
                           IN  IF IsNanOrInf(interpolatedValue)
                               THEN Thrown("IoTDataException", "InvalidValue")
                               ELSE Returned(interpolatedValue)
                 ELSE IF method = "NEAREST_NEIGHBOR"
                 THEN Returned(IF target - t0 < t1 - target THEN y0 ELSE y1)
                 ELSE Thrown("IoTDataException", "UnknownMethod")

\* The body of the loop of interpolateData for one query time.
InterpolateAt(d, t, target, method) ==
    LET it == LowerBound(t, target)
    IN  IF it = 1 THEN Returned(d[1])
        ELSE IF it = Len(t) + 1 THEN Returned(d[Len(d)])
        ELSE LET t0 == t[it - 1]
                 t1 == t[it]
                 y0 == d[it - 1]
                 y1 == d[it]
             IN  IF target = t1 THEN Returned(y1)
                 ELSE IF target = t0 THEN Returned(y0)
                 ELSE IF method = "LINEAR"
                 THEN IF t1 = t0 THEN Returned(y0)
                      ELSE LET factor == FDiv(DurationSeconds(target - t0),
                                              DurationSeconds(t1 - t0))
                               interpolatedValue == FAdd(y0, FMul(factor, FSub(y1, y0)))
                           IN  IF IsNanOrInf(interpolatedValue)
                               THEN Thrown("IoTDataException", "InvalidValue")
                               ELSE Returned(interpolatedValue)
                 ELSE IF method = "NEAREST_NEIGHBOR"
                 THEN Returned(IF target - t0 <= t1 - target THEN y0 ELSE y1)
                 ELSE Thrown("IoTDataException", "UnknownMethod")

RECURSIVE InterpolateLoop(_, _, _, _, _, _)
InterpolateLoop(d, t, newTimestamps, method, k, interpolatedData) ==
    IF k > Len(newTimestamps) THEN Returned(interpolatedData)
    ELSE LET r == InterpolateAt(d, t, newTimestamps[k], method)
         IN  IF r.err # NoError THEN r
             ELSE InterpolateLoop(d, t, newTimestamps, method, k + 1,
                                  Append(interpolatedData, r.value[1]))

\* interpolateData without the check of the query order.
interpolateDataIgnoresOrder(d, t, newTimestamps, method) ==
    IF d = <<>> THEN Thrown("IoTDataEmptyException", "EmptyData")
    ELSE InterpolateLoop(d, t, newTimestamps, method, 1, <<>>)

\* interpolateData of IoTData<double>.
interpolateData(d, t, newTimestamps, method) ==
    IF d = <<>> THEN Thrown("IoTDataEmptyException", "EmptyData")
    ELSE IF \E i \in 2 .. Len(newTimestamps) : newTimestamps[i] < newTimestamps[i - 1]
    THEN Thrown("IoTDataException", "UnsortedQuery")
    ELSE InterpolateLoop(d, t, newTimestamps, method, 1, <<>>)

\* static_cast<T> of a double for an integer T: the fraction is dropped.
ToInt(x) == IF x.e >= 0 THEN x.m * Pow2(x.e) ELSE TruncDiv(x.m, Pow2(-x.e))

\* interpolateData of IoTData<int>: the same body, where static_cast<double>
\* of y0 and y1 and static_cast<T> of the interpolated value are conversions.
interpolateDataInt(d, t, newTimestamps, method) ==
    LET r == interpolateData([i \in 1 .. Len(d) |-> ToDouble(d[i])], t, newTimestamps, method)
    IN  IF r.err # NoError THEN r
        ELSE Returned([k \in 1 .. Len(r.value[1]) |-> ToInt(r.value[1][k])])

(* --------------------------- text and files ---------------------------- *)

\* A line of text is a sequence of characters; a file is a sequence of
\* lines, as std::getline delivers them.  NoFile is a path that cannot be
\* opened.
NoFile == [exists |-> FALSE, lines |-> <<>>]

FileOf(lines) == [exists |-> TRUE, lines |-> lines]

Digits == <<"0", "1", "2", "3", "4", "5", "6", "7", "8", "9">>

IsDigit(c) == \E i \in 1 .. 10 : Digits[i] = c

DigitVal(c) == (CHOOSE i \in 1 .. 10 : Digits[i] = c) - 1

IsSpace(c) == c \in {" ", "\t", "\r"}

\* operator<< of an integer: its decimal digits, '-' first when negative.
RECURSIVE NatToText(_)
NatToText(n) ==
    IF n < 10 THEN <<Digits[n + 1]>>
    ELSE NatToText(n \div 10) \o <<Digits[(n % 10) + 1]>>

IntToText(n) == IF n < 0 THEN <<"-">> \o NatToText(-n) ELSE NatToText(n)

\* Formatted input skips leading whitespace.
RECURSIVE SkipWs(_)
SkipWs(s) == IF s # <<>> /\ IsSpace(Head(s)) THEN SkipWs(Tail(s)) ELSE s

RECURSIVE ReadDigits(_, _, _)
ReadDigits(s, acc, count) ==
    IF s # <<>> /\ IsDigit(Head(s))
    THEN ReadDigits(Tail(s), acc * 10 + DigitVal(Head(s)), count + 1)
    ELSE [val |-> acc, count |-> count, rest |-> s]

\* operator>> into an integer: optional sign, then at least one digit.
ReadInt(s) ==
    LET s1 == SkipWs(s)
        signed == s1 # <<>> /\ Head(s1) \in {"-", "+"}
        r == ReadDigits(IF signed THEN Tail(s1) ELSE s1, 0, 0)
    IN  IF r.count = 0 THEN [ok |-> FALSE, val |-> 0, rest |-> s1]
        ELSE [ok |-> TRUE,
              val |-> IF signed /\ Head(s1) = "-" THEN -r.val ELSE r.val,
              rest |-> r.rest]

\* operator>> into a char: the next character that is not whitespace.
ReadChar(s) ==
    LET s1 == SkipWs(s)
    IN  IF s1 = <<>> THEN [ok |-> FALSE, ch |-> "", rest |-> s1]
        ELSE [ok |-> TRUE, ch |-> Head(s1), rest |-> Tail(s1)]

\* duration_cast<seconds>(ts.time_since_epoch()).count() truncates.
ToEpochSeconds(ts) == TruncDiv(ts, TicksPerSecond)

HeaderLine ==
    <<"T", "i", "m", "e", "s", "t", "a", "m", "p", "E", "p", "o", "c", "h",
      "S", "e", "c", "o", "n", "d", "s", ",", "V", "a", "l", "u", "e">>

\* exportDataToFile: the header line, then one "epochSeconds,value" row
\* per sample.
ExportRow(ts, v) == IntToText(ToEpochSeconds(ts)) \o <<",">> \o IntToText(v)

exportDataToFile(d, t) ==
    FileOf(<<HeaderLine>> \o [i \in 1 .. Len(d) |-> ExportRow(t[i], d[i])])

\* The header check of importDataFromFile:
\* headerStream >> epochSeconds >> comma >> value.
HeaderParses(line) ==
    LET a == ReadInt(line)
        b == ReadChar(a.rest)
        c == ReadInt(b.rest)
    IN  a.ok /\ b.ok /\ c.ok

\* Both branches of the header check seek back to the start of the file:
\* the row loop begins at the first line whatever the check found.
FirstRowLine(lines) ==
    IF lines = <<>> THEN 1
    ELSE IF ~HeaderParses(lines[1]) THEN 1 ELSE 1

\* One pass of the row loop over a line.
IsBlankLine(line) == \A i \in 1 .. Len(line) : IsSpace(line[i])

ParseRow(line) ==
    LET a == ReadInt(line)
        b == ReadChar(a.rest)
        c == ReadInt(b.rest)
    IN  IF IsBlankLine(line) THEN [kind |-> "blank"]
        ELSE IF a.ok /\ b.ok /\ b.ch = "," /\ c.ok
        THEN IF ReadChar(c.rest).ok
             THEN [kind |-> "trailing"]
             ELSE [kind |-> "row", epochSeconds |-> a.val, value |-> c.val]
        ELSE [kind |-> "invalid"]

\* The row loop: rows are pushed in file order until a line is refused.
RECURSIVE RowLoop(_, _, _, _)
RowLoop(lines, i, d, t) ==
    IF i > Len(lines) THEN [err |-> NoError, data |-> d, timestamps |-> t]
    ELSE LET r == ParseRow(lines[i])
         IN  CASE r.kind = "blank" -> RowLoop(lines, i + 1, d, t)
               [] r.kind = "row" ->
                    RowLoop(lines, i + 1, Append(d, r.value),
                            Append(t, FromTimeT(r.epochSeconds)))
               [] r.kind = "trailing" ->
                    [err |-> Error("IoTDataFileException", "UnexpectedCharacters"),
                     data |-> d, timestamps |-> t]
               [] OTHER ->
                    [err |-> Error("IoTDataFileException", "InvalidFormat"),
                     data |-> d, timestamps |-> t]

\* importDataFromFile that reads into vectors of its own and leaves the
\* Series as it was when the file is refused.
importDataFromFileKeepsOld(d, t, content) ==
    IF ~content.exists
    THEN {[err |-> Error("IoTDataFileException", "CannotOpen"), data |-> d, timestamps |-> t]}
    ELSE LET r == RowLoop(content.lines, FirstRowLine(content.lines), <<>>, <<>>)
         IN  IF r.err # NoError THEN {[err |-> r.err, data |-> d, timestamps |-> t]}
             ELSE IF r.data = <<>>
             THEN {[err |-> Error("IoTDataFileException",
                                  IF content.lines = <<>> THEN "EmptyFile" ELSE "NoData"),
                    data |-> d, timestamps |-> t]}
             ELSE ensureSorted(r.data, r.timestamps)

\* importDataFromFile: the outcomes, given the Series and the file's content.
importDataFromFile(d, t, content) ==
    IF ~content.exists
    THEN {[err |-> Error("IoTDataFileException", "CannotOpen"), data |-> d, timestamps |-> t]}
    ELSE LET r == RowLoop(content.lines, FirstRowLine(content.lines), <<>>, <<>>)
         IN  IF r.err # NoError THEN {r}
             ELSE IF r.data = <<>>
             THEN {[err |-> Error("IoTDataFileException",
                                  IF content.lines = <<>> THEN "EmptyFile" ELSE "NoData"),
                    data |-> r.data, timestamps |-> r.timestamps]}
             ELSE ensureSorted(r.data, r.timestamps)

(* ------------------------------ DataSet -------------------------------- *)

EmptyMap == [n \in {} |-> <<>>]

\* A stored Series.
SeriesOf(d, t) == [data |-> d, timestamps |-> t]

\* The names a caller uses, in the key order of std::map<std::string, ...>
\* and of a JSON object.
NameOrder == <<"humidity", "temperature">>

Names == Range(NameOrder)

\* A JSON value as nlohmann::json holds it: its type, and the integer, the
\* array items or the object members that the type has.
JInt(n) == [type |-> "integer", val |-> n, items |-> <<>>, members |-> <<>>]

JString == [type |-> "string", val |-> 0, items |-> <<>>, members |-> <<>>]

JArray(items) == [type |-> "array", val |-> 0, items |-> items, members |-> <<>>]

\* members is a sequence of <<key, value>> pairs in key order.
JObject(members) == [type |-> "object", val |-> 0, items |-> <<>>, members |-> members]

HasKey(j, key) == \E i \in 1 .. Len(j.members) : j.members[i][1] = key

Member(j, key) == j.members[CHOOSE i \in 1 .. Len(j.members) : j.members[i][1] = key][2]

\* The file a DataSet is exported to and imported from: missing, not
\* parsable as JSON, or holding a document.
NoJsonFile == [kind |-> "missing", root |-> JString]

UnparsableJsonFile == [kind |-> "unparsable", root |-> JString]

JsonFileOf(root) == [kind |-> "document", root |-> root]

\* addSeries that overwrites the series stored under a name already there.
addSeriesOverwrites(map, name, series) ==
    [err |-> NoError,
     map |-> [n \in DOMAIN map \cup {name} |-> IF n = name THEN series ELSE map[n]]]

\* addSeries that stores a fresh empty Series in place of the one given.
addSeriesStoresEmpty(map, name, series) ==
    IF name \in DOMAIN map
    THEN [err |-> Error("IoTDataException", "DuplicateName"), map |-> map]
    ELSE [err |-> NoError,
          map |-> [n \in DOMAIN map \cup {name} |->
                     IF n = name THEN SeriesOf(<<>>, <<>>) ELSE map[n]]]

\* DataSet::addSeries, in its copying and its moving form.
addSeries(map, name, series) ==
    IF name \in DOMAIN map
    THEN [err |-> Error("IoTDataException", "DuplicateName"), map |-> map]
    ELSE [err |-> NoError,
          map |-> [n \in DOMAIN map \cup {name} |-> IF n = name THEN series ELSE map[n]]]

\* DataSet::getSeries: the outcome, and the series the reference is to.
getSeries(map, name) ==
    IF name \notin DOMAIN map
    THEN [err |-> Error("IoTDataException", "NotFound"), map |-> map, found |-> <<>>]
    ELSE [err |-> NoError, map |-> map, found |-> <<map[name]>>]

\* removeSeries that reports success and erases nothing.
removeSeriesErasesNothing(map, name) ==
    IF name \notin DOMAIN map
    THEN [err |-> Error("IoTDataException", "NotFound"), map |-> map]
    ELSE [err |-> NoError, map |-> map]

\* DataSet::removeSeries.
removeSeries(map, name) ==
    IF name \notin DOMAIN map
    THEN [err |-> Error("IoTDataException", "NotFound"), map |-> map]
    ELSE [err |-> NoError, map |-> [n \in DOMAIN map \ {name} |-> map[n]]]

\* DataSet::hasSeries.
hasSeries(map, name) == Cardinality({n \in DOMAIN map : n = name}) > 0

\* DataSet::getSeriesNames: the keys as the map iterates them.
RECURSIVE NamesFrom(_, _)
NamesFrom(map, i) ==
    IF i > Len(NameOrder) THEN <<>>
    ELSE IF NameOrder[i] \in DOMAIN map
         THEN <<NameOrder[i]>> \o NamesFrom(map, i + 1)
         ELSE NamesFrom(map, i + 1)

getSeriesNames(map) == NamesFrom(map, 1)

\* DataSet::size and DataSet::empty.
size(map) == Cardinality(DOMAIN map)

empty(map) == DOMAIN map = {}

\* DataSet::clear.
clear(map) == EmptyMap

\* The series object that exportToJson builds for one stored series.
SeriesToJson(series) ==
    JObject(<<
        <<"timestamps_epoch_s",
          JArray([i \in 1 .. Len(series.timestamps) |->
                    JInt(ToEpochSeconds(series.timestamps[i]))])>>,
        <<"values",
          JArray([i \in 1 .. Len(series.data) |-> JInt(series.data[i])])>> >>)

\* The names of a map, in key order.
RECURSIVE KeysInOrder(_, _)
KeysInOrder(keys, i) ==
    IF i > Len(NameOrder) THEN <<>>
    ELSE IF NameOrder[i] \in keys
         THEN <<NameOrder[i]>> \o KeysInOrder(keys, i + 1)
         ELSE KeysInOrder(keys, i + 1)

\* DataSet::exportToJson: the document, or the errors it throws.
exportToJson(map, writable) ==
    IF \E n \in DOMAIN map : Len(map[n].timestamps) # Len(map[n].data)
    THEN [err |-> Error("IoTDataException", "InternalError"), written |-> FALSE,
          root |-> JString]
    ELSE IF ~writable
    THEN [err |-> Error("IoTDataFileException", "CannotOpen"), written |-> FALSE,
          root |-> JString]
    ELSE LET keys == KeysInOrder(DOMAIN map, 1)
         IN  [err |-> NoError, written |-> TRUE,
              root |-> JObject([i \in 1 .. Len(keys) |->
                                  <<keys[i], SeriesToJson(map[keys[i]])>>])]

\* The body of the loop of importFromJson for one series object: the
\* errors thrown, or the Series the constructor builds.
AllIntegers(arr) == \A i \in 1 .. Len(arr.items) : arr.items[i].type = "integer"

ImportSeries(seriesJson) ==
    IF seriesJson.type # "object"
    THEN {[err |-> Error("IoTDataException", "SeriesNotObject"), data |-> <<>>, timestamps |-> <<>>]}
    ELSE IF ~HasKey(seriesJson, "timestamps_epoch_s") \/ ~HasKey(seriesJson, "values")
    THEN {[err |-> Error("IoTDataException", "MissingKey"), data |-> <<>>, timestamps |-> <<>>]}
    ELSE LET timestampsJson == Member(seriesJson, "timestamps_epoch_s")
             valuesJson == Member(seriesJson, "values")
         IN  IF timestampsJson.type # "array" \/ valuesJson.type # "array"
             THEN {[err |-> Error("IoTDataException", "NotArrays"),
                    data |-> <<>>, timestamps |-> <<>>]}
             ELSE IF Len(timestampsJson.items) # Len(valuesJson.items)
             THEN {[err |-> Error("IoTDataException", "CountMismatch"),
                    data |-> <<>>, timestamps |-> <<>>]}
             ELSE IF ~AllIntegers(timestampsJson)
             THEN {[err |-> Error("IoTDataException", "NonIntegerTimestamp"),
                    data |-> <<>>, timestamps |-> <<>>]}
             ELSE IF ~AllIntegers(valuesJson)
             THEN {[err |-> Error("IoTDataException", "TypeMismatch"),
                    data |-> <<>>, timestamps |-> <<>>]}
             ELSE IoTDataCtor(
                    [i \in 1 .. Len(valuesJson.items) |-> valuesJson.items[i].val],
                    [i \in 1 .. Len(timestampsJson.items) |->
                       FromTimeT(timestampsJson.items[i].val)])

\* The loop made lenient: a series object that is refused is skipped.
RECURSIVE ImportLoopSkipsBad(_, _, _)
ImportLoopSkipsBad(members, i, map) ==
    IF i > Len(members) THEN {[err |-> NoError, map |-> map]}
    ELSE UNION {
           IF r.err # NoError THEN ImportLoopSkipsBad(members, i + 1, map)
           ELSE ImportLoopSkipsBad(members, i + 1,
                  [n \in DOMAIN map \cup {members[i][1]} |->
                     IF n \in DOMAIN map THEN map[n]
                     ELSE SeriesOf(r.data, r.timestamps)]) :
           r \in ImportSeries(members[i][2])}

\* The loop of importFromJson over the members of the root, in key order:
\* each series is emplaced as soon as it is built.
RECURSIVE ImportLoop(_, _, _)
ImportLoop(members, i, map) ==
    IF i > Len(members) THEN {[err |-> NoError, map |-> map]}
    ELSE UNION {
           IF r.err # NoError THEN {[err |-> r.err, map |-> map]}
           ELSE ImportLoop(members, i + 1,
                  [n \in DOMAIN map \cup {members[i][1]} |->
                     IF n \in DOMAIN map THEN map[n]
                     ELSE SeriesOf(r.data, r.timestamps)]) :
           r \in ImportSeries(members[i][2])}

\* importFromJson that never clears what the DataSet held.
importFromJsonKeepsOld(map, jfile) ==
    IF jfile.kind = "missing"
    THEN {[err |-> Error("IoTDataFileException", "CannotOpen"), map |-> map]}
    ELSE IF jfile.kind = "unparsable"
    THEN {[err |-> Error("IoTDataFileException", "ParseError"), map |-> map]}
    ELSE IF jfile.root.type # "object"
    THEN {[err |-> Error("IoTDataException", "RootNotObject"), map |-> map]}
    ELSE ImportLoop(jfile.root.members, 1, map)

\* DataSet::importFromJson: open, parse, clear, then decode.
importFromJson(map, jfile) ==
    IF jfile.kind = "missing"
    THEN {[err |-> Error("IoTDataFileException", "CannotOpen"), map |-> map]}
    ELSE IF jfile.kind = "unparsable"
    THEN {[err |-> Error("IoTDataFileException", "ParseError"), map |-> map]}
    ELSE IF jfile.root.type # "object"
    THEN {[err |-> Error("IoTDataException", "RootNotObject"), map |-> EmptyMap]}
    ELSE ImportLoop(jfile.root.members, 1, EmptyMap)

(* ------------------------- the Series a caller holds ------------------- *)

\* What the last call was and how it ended; args keeps the constructor's
\* arguments.
OpRecord(name, err, args) == [name |-> name, err |-> err, args |-> args]

\* returned holds the value the last call returned: <<>> after a call that
\* returns nothing or that threw.
NoValue == <<>>

\* The three constructors.  A constructor that throws leaves no object.
ConstructDefault ==
    /\ alive = TRUE
    /\ data = <<>>
    /\ timestamps = <<>>
    /\ op = OpRecord("construct", NoError, <<>>)

ConstructAuto ==
    \E v \in SeqsUpTo(Values, MaxLen) :
        /\ alive = TRUE
        /\ data = v
        /\ timestamps = AutoTimestamps(Len(v))
        /\ op = OpRecord("construct", NoError, <<v>>)

Construct ==
    \E v \in SeqsUpTo(Values, MaxLen), t \in SeqsUpTo(Ticks, MaxLen) :
        \E r \in IoTDataCtor(v, t) :
            /\ alive = (r.err = NoError)
            /\ data = r.data
            /\ timestamps = r.timestamps
            /\ op = OpRecord("construct", r.err, <<v, t>>)

\* exported remembers the Series that exportDataToFile last wrote out, and
\* exportedSet the DataSet that exportToJson last wrote out.
NothingExported == [written |-> FALSE, data |-> <<>>, timestamps |-> <<>>]

NoSetExported == [written |-> FALSE, map |-> EmptyMap]

Init ==
    /\ ConstructDefault \/ ConstructAuto \/ Construct
    /\ returned = NoValue
    /\ file = NoFile
    /\ exported = NothingExported
    /\ seriesMap = EmptyMap
    /\ jsonFile = NoJsonFile
    /\ exportedSet = NoSetExported

SeriesStep(name, r, args) ==
    /\ data' = r.data
    /\ timestamps' = r.timestamps
    /\ op' = OpRecord(name, r.err, args)
    /\ returned' = NoValue
    /\ UNCHANGED <<alive, file, exported, dataSetVars>>

AppendData ==
    /\ alive
    /\ Len(data) < MaxLen
    /\ \E v \in Values, t \in Ticks :
         \E r \in appendData(data, timestamps, v, t) :
             SeriesStep("appendData", r, <<v, t>>)

ClearData ==
    /\ alive
    /\ SeriesStep("clearData", [err |-> NoError, data |-> <<>>, timestamps |-> <<>>], <<>>)

FilterOutliers ==
    /\ alive
    /\ \E predicate \in Predicates :
         SeriesStep("filterOutliers", filterOutliers(data, timestamps, predicate),
                    <<predicate>>)

ScaleData ==
    /\ alive
    /\ \E scaleFactor \in ScaleFactors :
         LET r == scaleData(data, scaleFactor)
         IN  SeriesStep("scaleData",
                        [err |-> r.err, data |-> r.data, timestamps |-> timestamps],
                        <<scaleFactor>>)

NormalizeData ==
    /\ alive
    /\ LET r == normalizeData(data)
       IN  SeriesStep("normalizeData",
                      [err |-> r.err, data |-> r.data, timestamps |-> timestamps], <<>>)

TrimData ==
    /\ alive
    /\ \E trimPercentage \in TrimPercentages :
         SeriesStep("trimData", trimData(data, timestamps, trimPercentage), <<trimPercentage>>)

\* Text of a well-formed row, and of rows that are refused.
RowText(sec, v) == IntToText(sec) \o <<",">> \o IntToText(v)

BadDelimiterLine == <<"0", ";", "1">>

TrailingLine == <<"0", ",", "1", "x">>

BlankLine == <<" ">>

\* The files a caller points importDataFromFile at: missing, empty, with
\* and without header, rows in and out of time order, rows with equal
\* timestamps, a blank line, and a refused line after rows.
SampleFiles ==
    {NoFile,
     FileOf(<<>>),
     FileOf(<<HeaderLine>>),
     FileOf(<<HeaderLine, RowText(0, 1)>>),
     FileOf(<<RowText(0, 1), RowText(1, 2)>>),
     FileOf(<<RowText(1, 2), BlankLine, RowText(0, 1)>>),
     FileOf(<<RowText(0, 1), RowText(0, 2)>>),
     FileOf(<<RowText(1, 1), RowText(0, 2), RowText(0, 1)>>),
     FileOf(<<RowText(1, 2), RowText(0, 1), BadDelimiterLine>>),
     FileOf(<<RowText(0, 1), TrailingLine, RowText(1, 2)>>)}

ImportDataFromFile(content) ==
    /\ alive
    /\ \E r \in importDataFromFile(data, timestamps, content) :
         SeriesStep("importDataFromFile", r, <<>>)

ImportSampleFile == \E content \in SampleFiles : ImportDataFromFile(content)

Next ==
    \/ AppendData
    \/ ClearData
    \/ FilterOutliers
    \/ ScaleData
    \/ NormalizeData
    \/ TrimData
    \/ ImportSampleFile

Spec == Init /\ [][Next]_vars

\* A Series that is only appended to after its construction.
NextAppend == AppendData

SpecAppend == Init /\ [][NextAppend]_vars

\* A Series and one file on disk: the Series is written to the file, and
\* the file is read back into the Series.
InitFile ==
    /\ ConstructDefault \/ ConstructAuto \/ Construct
    /\ returned = NoValue
    /\ file \in SampleFiles
    /\ exported = NothingExported
    /\ seriesMap = EmptyMap
    /\ jsonFile = NoJsonFile
    /\ exportedSet = NoSetExported

ExportDataToFile ==
    /\ alive
    /\ file' = exportDataToFile(data, timestamps)
    /\ exported' = [written |-> TRUE, data |-> data, timestamps |-> timestamps]
    /\ op' = OpRecord("exportDataToFile", NoError, <<>>)
    /\ returned' = NoValue
    /\ UNCHANGED <<alive, data, timestamps, dataSetVars>>

ImportFile == ImportDataFromFile(file)

NextFile == ExportDataToFile \/ ImportFile

SpecFile == InitFile /\ [][NextFile]_vars

(* ------------------------ the DataSet a caller holds ------------------- *)

\* The Series a caller adds: empty, one sample, two samples within one
\* second, two samples given out of order, two samples at one timestamp.
SampleSeries ==
    {SeriesOf(r.data, r.timestamps) :
       r \in IoTDataCtor(<<>>, <<>>) \cup IoTDataCtor(<<1>>, <<1>>)
             \cup IoTDataCtor(<<1, 2>>, <<0, 1>>) \cup IoTDataCtor(<<2, 1>>, <<2, 0>>)
             \cup IoTDataCtor(<<1, 2>>, <<2, 2>>)}

SeriesIdle ==
    /\ alive = TRUE
    /\ data = <<>>
    /\ timestamps = <<>>
    /\ file = NoFile
    /\ exported = NothingExported

InitDataSet ==
    /\ SeriesIdle
    /\ returned = NoValue
    /\ seriesMap = EmptyMap
    /\ jsonFile \in {NoJsonFile, UnparsableJsonFile}
    /\ exportedSet = NoSetExported
    /\ op = OpRecord("DataSet", NoError, <<>>)

DataSetStep(name, err, map, args) ==
    /\ seriesMap' = map
    /\ op' = OpRecord(name, err, args)
    /\ returned' = NoValue
    /\ UNCHANGED <<seriesVars, jsonFile, exportedSet>>

AddSeriesCopy ==
    \E name \in Names, series \in SampleSeries :
        LET r == addSeries(seriesMap, name, series)
        IN  DataSetStep("addSeries", r.err, r.map, <<name>>)

AddSeriesMove ==
    \E name \in Names, series \in SampleSeries :
        LET r == addSeries(seriesMap, name, series)
        IN  DataSetStep("addSeriesMove", r.err, r.map, <<name>>)

GetSeries ==
    \E name \in Names :
        LET r == getSeries(seriesMap, name)
        IN  DataSetStep("getSeries", r.err, r.map, <<name>>)

RemoveSeries ==
    \E name \in Names :
        LET r == removeSeries(seriesMap, name)
        IN  DataSetStep("removeSeries", r.err, r.map, <<name>>)

Clear == DataSetStep("clear", NoError, clear(seriesMap), <<>>)

ExportToJson ==
    \E writable \in BOOLEAN :
        LET r == exportToJson(seriesMap, writable)
        IN  /\ jsonFile' = IF r.written THEN JsonFileOf(r.root) ELSE jsonFile
            /\ exportedSet' = IF r.written THEN [written |-> TRUE, map |-> seriesMap]
                              ELSE exportedSet
            /\ op' = OpRecord("exportToJson", r.err, <<>>)
            /\ returned' = NoValue
            /\ UNCHANGED <<seriesVars, seriesMap>>

ImportFromJson ==
    \E r \in importFromJson(seriesMap, jsonFile) :
        DataSetStep("importFromJson", r.err, r.map, <<>>)

NextDataSet ==
    \/ AddSeriesCopy
    \/ AddSeriesMove
    \/ GetSeries
    \/ RemoveSeries
    \/ Clear
    \/ ExportToJson
    \/ ImportFromJson

SpecDataSet == InitDataSet /\ [][NextDataSet]_vars

\* The documents a caller points importFromJson at.  Arrays hold at most
\* MaxArr elements.
MaxArr == 2

JsonTimes == {0, 1}

JsonValues == {1, 2}

JsonTimestampArrays ==
    {JArray([i \in 1 .. Len(q) |-> JInt(q[i])]) : q \in SeqsUpTo(JsonTimes, MaxArr)}
    \cup {JArray(<<JString>>), JArray(<<JInt(0), JString>>)}

JsonValueArrays ==
    {JArray([i \in 1 .. Len(q) |-> JInt(q[i])]) : q \in SeqsUpTo(JsonValues, MaxArr)}
    \cup {JArray(<<JString>>), JArray(<<JInt(1), JString>>)}

JsonSeriesEntries ==
    {JString,
     JObject(<< <<"timestamps_epoch_s", JArray(<<JInt(0)>>)>> >>),
     JObject(<< <<"values", JArray(<<JInt(1)>>)>> >>),
     JObject(<< <<"timestamps_epoch_s", JInt(0)>>, <<"values", JArray(<<JInt(1)>>)>> >>),
     JObject(<< <<"timestamps_epoch_s", JArray(<<JInt(0)>>)>>, <<"values", JInt(1)>> >>)}
    \cup {JObject(<< <<"timestamps_epoch_s", t>>, <<"values", v>> >>) :
            t \in JsonTimestampArrays, v \in JsonValueArrays}

JsonRoots ==
    {JArray(<<>>)}
    \cup {JObject([i \in 1 .. Len(keys) |-> <<keys[i], e[keys[i]]>>]) :
            keys \in {KeysInOrder(K, 1) : K \in SUBSET Names},
            e \in [Names -> JsonSeriesEntries]}

JsonFiles == {NoJsonFile, UnparsableJsonFile} \cup {JsonFileOf(root) : root \in JsonRoots}

\* What the DataSet holds before the import: nothing, or two series whose
\* timestamps fall between whole seconds.
PriorSets ==
    {EmptyMap,
     [n \in Names |-> IF n = NameOrder[1] THEN SeriesOf(<<1>>, <<1>>)
                      ELSE SeriesOf(<<2, 1>>, <<1, 1>>)]}

InitImportJson ==
    /\ SeriesIdle
    /\ returned = NoValue
    /\ seriesMap \in PriorSets
    /\ jsonFile \in JsonFiles
    /\ exportedSet = NoSetExported
    /\ op = OpRecord("DataSet", NoError, <<>>)

NextImportJson == ImportFromJson

SpecImportJson == InitImportJson /\ [][NextImportJson]_vars

\* A caller's Series next to a DataSet: the Series is copied into the
\* DataSet, then the caller's Series and the stored one (through the
\* reference getSeries returns) are mutated independently.  Each holds at
\* most MaxOwned samples.
MaxOwned == 2

OwnedNames == {NameOrder[1]}

InitOwnership ==
    /\ ConstructDefault
    /\ returned = NoValue
    /\ file = NoFile
    /\ exported = NothingExported
    /\ seriesMap = EmptyMap
    /\ jsonFile = NoJsonFile
    /\ exportedSet = NoSetExported

AddOwnSeries ==
    /\ alive
    /\ \E name \in OwnedNames :
         LET r == addSeries(seriesMap, name, SeriesOf(data, timestamps))
         IN  DataSetStep("addSeries", r.err, r.map, <<name>>)

AppendOwn ==
    /\ alive
    /\ Len(data) < MaxOwned
    /\ \E t \in Ticks :
         \E r \in appendData(data, timestamps, 1, t) :
             SeriesStep("appendData", r, <<1, t>>)

\* A mutating member function called on the reference getSeries(name)
\* returns.
StoredStep(name, stepName, r) ==
    DataSetStep(stepName, r.err,
                [seriesMap EXCEPT ![name] = SeriesOf(r.data, r.timestamps)], <<name>>)

MutateStored ==
    \E name \in OwnedNames :
        LET g == getSeries(seriesMap, name)
        IN  IF g.err # NoError
            THEN DataSetStep("getSeries", g.err, g.map, <<name>>)
            ELSE LET stored == g.found[1]
                 IN  \/ /\ Len(stored.data) < MaxOwned
                        /\ \E t \in Ticks :
                             \E r \in appendData(stored.data, stored.timestamps, 1, t) :
                                 StoredStep(name, "getSeries.appendData", r)
                     \/ StoredStep(name, "getSeries.clearData",
                                   [err |-> NoError, data |-> <<>>, timestamps |-> <<>>])
                     \/ \E scaleFactor \in ScaleFactors :
                          LET r == scaleData(stored.data, scaleFactor)
                          IN  StoredStep(name, "getSeries.scaleData",
                                         [err |-> r.err, data |-> r.data,
                                          timestamps |-> stored.timestamps])
                     \/ \E trimPercentage \in TrimPercentages :
                          StoredStep(name, "getSeries.trimData",
                                     trimData(stored.data, stored.timestamps, trimPercentage))

NextOwnership ==
    \/ AddOwnSeries
    \/ AppendOwn
    \/ ClearData
    \/ ScaleData
    \/ TrimData
    \/ MutateStored
    \/ Clear

SpecOwnership == InitOwnership /\ [][NextOwnership]_vars

\* An IoTData<double> built by the constructor that generates the
\* timestamps, and the calls on it that compute in double.
DoubleValues == {ToDouble(1), ToDouble(2), ToDouble(3), ToDouble(8), NaN}

InitDouble ==
    /\ \E v \in SeqsUpTo(DoubleValues, MaxLen) :
         /\ alive = TRUE
         /\ data = v
         /\ timestamps = AutoTimestamps(Len(v))
         /\ op = OpRecord("construct", NoError, <<v>>)
    /\ returned = NoValue
    /\ file = NoFile
    /\ exported = NothingExported
    /\ seriesMap = EmptyMap
    /\ jsonFile = NoJsonFile
    /\ exportedSet = NoSetExported

\* A const member function: it returns a value or throws.
QueryStep(name, r, args) ==
    /\ op' = OpRecord(name, r.err, args)
    /\ returned' = r.value
    /\ UNCHANGED <<seriesVars, dataSetVars>>

CalculateMean == QueryStep("calculateMean", calculateMean(data), <<>>)

CalculateStandardDeviation ==
    QueryStep("calculateStandardDeviation", calculateStandardDeviation(data), <<>>)

NormalizeDataDouble ==
    /\ alive
    /\ LET r == normalizeDataDouble(data)
       IN  SeriesStep("normalizeData",
                      [err |-> r.err, data |-> r.data, timestamps |-> timestamps], <<data>>)

\* An IoTData<double> built from values and timestamps, and the queries
\* interpolateData is given: at most MaxQuery times, some before the first
\* and after the last timestamp a Series can hold.
MaxQuery == 2

InterpolatedValues == {ToDouble(1), ToDouble(3), NaN}

\* Stored timestamps with gaps of one, two and three ticks, so that a query
\* between two samples can be nearer to either of them or as near to both.
SampleTicks == {0, 1, 3}

QueryTicks == 0 .. 3

InitInterpolate ==
    /\ \E v \in SeqsUpTo(InterpolatedValues, MaxLen), t \in SeqsUpTo(SampleTicks, MaxLen) :
         /\ Len(v) = Len(t)
         /\ IsSortedSeq(t)
         /\ \E r \in IoTDataCtor(v, t) :
              /\ alive = (r.err = NoError)
              /\ data = r.data
              /\ timestamps = r.timestamps
              /\ op = OpRecord("construct", r.err, <<v, t>>)
    /\ returned = NoValue
    /\ file = NoFile
    /\ exported = NothingExported
    /\ seriesMap = EmptyMap
    /\ jsonFile = NoJsonFile
    /\ exportedSet = NoSetExported

\* One call on the Series as constructed: interpolateData is const.
InterpolateData ==
    /\ alive
    /\ op.name = "construct"
    /\ \E newTimestamps \in SeqsUpTo(QueryTicks, MaxQuery), method \in Methods :
         QueryStep("interpolateData",
                   interpolateData(data, timestamps, newTimestamps, method),
                   <<newTimestamps, method>>)

NextInterpolate == InterpolateData

SpecInterpolate == InitInterpolate /\ [][NextInterpolate]_vars

\* An IoTData<int> with sorted timestamps, and one interpolateData call on it.
IntValues == {3, 6, 8}

InitInterpolateInt ==
    /\ \E v \in SeqsUpTo(IntValues, MaxLen), t \in SeqsUpTo(SampleTicks, MaxLen) :
         /\ Len(v) = Len(t)
         /\ IsSortedSeq(t)
         /\ \E r \in IoTDataCtor(v, t) :
              /\ alive = (r.err = NoError)
              /\ data = r.data
              /\ timestamps = r.timestamps
              /\ op = OpRecord("construct", r.err, <<v, t>>)
    /\ returned = NoValue
    /\ file = NoFile
    /\ exported = NothingExported
    /\ seriesMap = EmptyMap
    /\ jsonFile = NoJsonFile
    /\ exportedSet = NoSetExported

InterpolateDataInt ==
    /\ alive
    /\ op.name = "construct"
    /\ \E newTimestamps \in SeqsUpTo(QueryTicks, MaxQuery), method \in Methods :
         QueryStep("interpolateData",
                   interpolateDataInt(data, timestamps, newTimestamps, method),
                   <<newTimestamps, method>>)

NextInterpolateInt == InterpolateDataInt

SpecInterpolateInt == InitInterpolateInt /\ [][NextInterpolateInt]_vars

\* The calls on the IoTData<double> with generated timestamps.
Min == QueryStep("min", min(data), <<>>)

Max == QueryStep("max", max(data), <<>>)

Median == \E r \in median(data) : QueryStep("median", r, <<>>)

WindowSizes == 0 .. MaxLen + 1

CalculateMovingAverage ==
    \E windowSize \in WindowSizes :
        QueryStep("calculateMovingAverage", calculateMovingAverage(data, windowSize),
                  <<windowSize>>)

CalculateWindowedMean ==
    \E windowSize \in WindowSizes :
        QueryStep("calculateWindowedMean", calculateWindowedMean(data, windowSize),
                  <<windowSize>>)

TargetSizes == 0 .. 3

ResampleData ==
    \E targetSize \in TargetSizes :
        QueryStep("resampleData", resampleData(data, timestamps, targetSize), <<targetSize>>)

NextDouble ==
    \/ CalculateMean
    \/ CalculateStandardDeviation
    \/ Min
    \/ Max
    \/ Median
    \/ CalculateMovingAverage
    \/ CalculateWindowedMean
    \/ ResampleData
    \/ NormalizeDataDouble
    \/ InterpolateData

SpecDouble == InitDouble /\ [][NextDouble]_vars

\* The computing calls of an IoTData<int>: each converts the values with
\* static_cast<double> and computes as IoTData<double> does; min, max and
\* interpolateData give back values of T.
AsDouble(d) == [i \in 1 .. Len(d) |-> ToDouble(d[i])]

AsT(r) == IF r.err # NoError THEN r ELSE Returned(ToInt(r.value[1]))

\* One computing call, on the Series as a constructor, scaleData,
\* normalizeData or exportDataToFile left it.
ConstCall ==
    /\ alive
    /\ op.name \in {"construct", "scaleData", "normalizeData", "exportDataToFile"}
    /\ \/ QueryStep("calculateMean", calculateMean(AsDouble(data)), <<>>)
       \/ QueryStep("calculateStandardDeviation",
                    calculateStandardDeviation(AsDouble(data)), <<>>)
       \/ QueryStep("min", AsT(min(AsDouble(data))), <<>>)
       \/ QueryStep("max", AsT(max(AsDouble(data))), <<>>)
       \/ \E r \in median(AsDouble(data)) : QueryStep("median", r, <<>>)
       \/ \E windowSize \in WindowSizes :
            QueryStep("calculateMovingAverage",
                      calculateMovingAverage(AsDouble(data), windowSize), <<windowSize>>)
       \/ \E windowSize \in WindowSizes :
            QueryStep("calculateWindowedMean",
                      calculateWindowedMean(AsDouble(data), windowSize), <<windowSize>>)
       \/ \E targetSize \in TargetSizes :
            QueryStep("resampleData", resampleData(AsDouble(data), timestamps, targetSize),
                      <<targetSize>>)
       \/ \E newTimestamps \in SeqsUpTo(QueryTicks, MaxQuery), method \in Methods :
            QueryStep("interpolateData",
                      interpolateDataInt(data, timestamps, newTimestamps, method),
                      <<newTimestamps, method>>)

\* An IoTData<int> built with generated timestamps, and the calls that are
\* to leave its samples, or their timestamps, alone.
InitFrame ==
    /\ ConstructDefault \/ ConstructAuto
    /\ returned = NoValue
    /\ file = NoFile
    /\ exported = NothingExported
    /\ seriesMap = EmptyMap
    /\ jsonFile = NoJsonFile
    /\ exportedSet = NoSetExported

NextFrame ==
    \/ ScaleData
    \/ NormalizeData
    \/ ExportDataToFile
    \/ ConstCall

SpecFrame == InitFrame /\ [][NextFrame]_vars

(* ------------------------------ claims --------------------------------- *)

PairCount(d, t, p) == Cardinality({i \in 1 .. Len(d) : <<t[i], d[i]>> = p})

PairsOf(d, t) == {<<t[i], d[i]>> : i \in 1 .. Len(d)}

\* C1: in every state a caller can observe, after construction and after
\* each mutating call whether it returned or threw, the timestamps of the
\* Series are non-decreasing.
ChronologicalInvariant == alive => IsSortedSeq(timestamps)

\* C2: values and timestamps always have the same length, a constructor
\* given sequences of different lengths throws SizeMismatch and leaves no
\* Series, and no call ever ends in an "Internal Error" size-mismatch throw.
LengthInvariant ==
    /\ Len(data) = Len(timestamps)
    /\ op.err.what # "InternalError"
    /\ (op.name = "construct" /\ Len(op.args) = 2) =>
         IF Len(op.args[1]) # Len(op.args[2])
         THEN ~alive /\ op.err = Error("IoTDataException", "SizeMismatch")
         ELSE alive /\ op.err = NoError

LengthWitness ==
    /\ op.name = "filterOutliers"
    /\ Len(data) = 1
    /\ Len(timestamps) = 1

\* C3: on a Series that was constructed and then only appended to, every
\* appendData leaves the Series sorted by timestamp, one sample longer, and
\* holding exactly the pairs it held before plus the new pair.
AppendStepOk ==
    op'.name = "appendData" =>
        LET new == <<op'.args[2], op'.args[1]>>
        IN  /\ IsSortedSeq(timestamps')
            /\ Len(data') = Len(data) + 1
            /\ Len(timestamps') = Len(timestamps) + 1
            /\ \A p \in PairsOf(data', timestamps') \cup PairsOf(data, timestamps) \cup {new} :
                 PairCount(data', timestamps', p) =
                   PairCount(data, timestamps, p) + (IF p = new THEN 1 ELSE 0)

AppendKeepsSorted == [][AppendStepOk]_vars

AppendWitness ==
    /\ op.name = "appendData"
    /\ Len(data) = 3
    /\ op.args[2] < timestamps[3]
    /\ timestamps[1] = timestamps[2]

\* C4: exporting a non-empty Series and importing the written file
\* succeeds and gives back the same values in the same order, with the
\* timestamps truncated to whole seconds.
SecondsOnly(t) == [i \in 1 .. Len(t) |-> FromTimeT(ToEpochSeconds(t[i]))]

LineRoundTrip ==
    (/\ op.name = "importDataFromFile"
     /\ exported.written
     /\ exported.data # <<>>
     /\ file = exportDataToFile(exported.data, exported.timestamps)) =>
        /\ op.err = NoError
        /\ data = exported.data
        /\ timestamps = SecondsOnly(exported.timestamps)

\* C6: importing a file whose first line is a header, not of the shape
\* "<integer epoch seconds>,<value>", and whose other lines are well-formed
\* rows succeeds, skips the header, and leaves exactly those rows, sorted.
HeaderThenRows(lines) ==
    /\ Len(lines) >= 2
    /\ ParseRow(lines[1]).kind \notin {"row", "blank"}
    /\ \A i \in 2 .. Len(lines) : ParseRow(lines[i]).kind = "row"

RowValues(lines) == [i \in 1 .. Len(lines) - 1 |-> ParseRow(lines[i + 1]).value]

RowTimestamps(lines) ==
    [i \in 1 .. Len(lines) - 1 |-> FromTimeT(ParseRow(lines[i + 1]).epochSeconds)]

HeaderTolerance ==
    (/\ op.name = "importDataFromFile"
     /\ file.exists
     /\ HeaderThenRows(file.lines)) =>
        /\ op.err = NoError
        /\ IsSortedSeq(timestamps)
        /\ Len(data) = Len(file.lines) - 1
        /\ \A p \in PairsOf(data, timestamps)
                      \cup PairsOf(RowValues(file.lines), RowTimestamps(file.lines)) :
             PairCount(data, timestamps, p) =
               PairCount(RowValues(file.lines), RowTimestamps(file.lines), p)

SamePairs(d1, t1, d2, t2) ==
    \A p \in PairsOf(d1, t1) \cup PairsOf(d2, t2) :
        PairCount(d1, t1, p) = PairCount(d2, t2, p)

\* C5: exporting a DataSet and importing the written document gives a
\* DataSet with the same names and, under each name, the same values in the
\* same order and the timestamps at whole-second granularity.
JsonRoundTrip ==
    (/\ op.name = "importFromJson"
     /\ exportedSet.written
     /\ jsonFile = JsonFileOf(exportToJson(exportedSet.map, TRUE).root)) =>
        /\ op.err = NoError
        /\ DOMAIN seriesMap = DOMAIN exportedSet.map
        /\ \A n \in DOMAIN seriesMap \cap DOMAIN exportedSet.map :
             /\ seriesMap[n].data = exportedSet.map[n].data
             /\ seriesMap[n].timestamps = SecondsOnly(exportedSet.map[n].timestamps)

\* A series object of a document as the import requires it.
WellFormedEntry(e) ==
    /\ e.type = "object"
    /\ HasKey(e, "timestamps_epoch_s")
    /\ HasKey(e, "values")
    /\ Member(e, "timestamps_epoch_s").type = "array"
    /\ Member(e, "values").type = "array"
    /\ Len(Member(e, "timestamps_epoch_s").items) = Len(Member(e, "values").items)
    /\ \A i \in 1 .. Len(Member(e, "timestamps_epoch_s").items) :
         Member(e, "timestamps_epoch_s").items[i].type = "integer"
    /\ \A i \in 1 .. Len(Member(e, "values").items) :
         Member(e, "values").items[i].type = "integer"

EntryValues(e) ==
    [i \in 1 .. Len(Member(e, "values").items) |-> Member(e, "values").items[i].val]

EntryTimestamps(e) ==
    [i \in 1 .. Len(Member(e, "timestamps_epoch_s").items) |->
       FromTimeT(Member(e, "timestamps_epoch_s").items[i].val)]

\* The series holds the samples of the series object, index by index paired
\* as in the document, in time order.
DecodedFrom(series, e) ==
    /\ WellFormedEntry(e)
    /\ Len(series.data) = Len(EntryValues(e))
    /\ Len(series.timestamps) = Len(EntryValues(e))
    /\ IsSortedSeq(series.timestamps)
    /\ SamePairs(series.data, series.timestamps, EntryValues(e), EntryTimestamps(e))

IsObjectDocument(jfile) == jfile.kind = "document" /\ jfile.root.type = "object"

\* Every series of the map was decoded from the document.
AllFromDocument(map, jfile) ==
    \A n \in DOMAIN map :
        /\ IsObjectDocument(jfile)
        /\ HasKey(jfile.root, n)
        /\ DecodedFrom(map[n], Member(jfile.root, n))

FirstMalformed(members) ==
    CHOOSE k \in 1 .. Len(members) :
        /\ ~WellFormedEntry(members[k][2])
        /\ \A i \in 1 .. k - 1 : WellFormedEntry(members[i][2])

MalformedEntryFails ==
    (/\ op.name = "importFromJson"
     /\ IsObjectDocument(jsonFile)
     /\ \E k \in 1 .. Len(jsonFile.root.members) :
          ~WellFormedEntry(jsonFile.root.members[k][2])) =>
        LET members == jsonFile.root.members
            k == FirstMalformed(members)
        IN  /\ op.err.class = "IoTDataException"
            /\ DOMAIN seriesMap = {members[i][1] : i \in 1 .. k - 1}
            /\ \A i \in 1 .. k - 1 :
                 /\ members[i][1] \in DOMAIN seriesMap
                 /\ DecodedFrom(seriesMap[members[i][1]], members[i][2])

MalformedEntryWitness ==
    /\ op.name = "importFromJson"
    /\ op.err.what = "CountMismatch"
    /\ DOMAIN seriesMap = {NameOrder[1]}
    /\ Len(seriesMap[NameOrder[1]].data) = 2

\* C9: importing a well-formed document succeeds and leaves one series per
\* key, as long as the arrays, sorted by timestamp, each value with the
\* timestamp of its index; an empty root object leaves an empty DataSet and
\* a root that is no object is a format error.
ImportSuccess ==
    (op.name = "importFromJson" /\ jsonFile.kind = "document") =>
        IF jsonFile.root.type # "object"
        THEN op.err = Error("IoTDataException", "RootNotObject")
        ELSE LET members == jsonFile.root.members
             IN  IF \A k \in 1 .. Len(members) : WellFormedEntry(members[k][2])
                 THEN /\ op.err = NoError
                      /\ DOMAIN seriesMap = {members[k][1] : k \in 1 .. Len(members)}
                      /\ \A k \in 1 .. Len(members) :
                           /\ members[k][1] \in DOMAIN seriesMap
                           /\ DecodedFrom(seriesMap[members[k][1]], members[k][2])
                 ELSE op.err # NoError

ImportSuccessWitness ==
    /\ op.name = "importFromJson"
    /\ op.err = NoError
    /\ IsObjectDocument(jsonFile)
    /\ \E k \in 1 .. Len(jsonFile.root.members) :
         LET e == jsonFile.root.members[k][2]
         IN  /\ WellFormedEntry(e)
             /\ EntryTimestamps(e) = <<FromTimeT(1), FromTimeT(0)>>
             /\ EntryValues(e) = <<1, 2>>
             /\ seriesMap[jsonFile.root.members[k][1]] =
                  SeriesOf(<<2, 1>>, <<FromTimeT(0), FromTimeT(1)>>)

\* C10: addSeries with a name already present throws DuplicateName, and
\* getSeries and removeSeries with an absent name throw NotFound; each
\* leaves the names and every stored series as they were.
NameErrorStep ==
    /\ op'.name \in {"addSeries", "addSeriesMove"} =>
         IF op'.args[1] \in DOMAIN seriesMap
         THEN op'.err = Error("IoTDataException", "DuplicateName") /\ seriesMap' = seriesMap
         ELSE op'.err = NoError
    /\ op'.name \in {"getSeries", "removeSeries"} =>
         IF op'.args[1] \notin DOMAIN seriesMap
         THEN op'.err = Error("IoTDataException", "NotFound") /\ seriesMap' = seriesMap
         ELSE op'.err = NoError

NameErrorsLeaveSetUnchanged == [][NameErrorStep]_vars

NameErrorWitness ==
    /\ op.name = "addSeries"
    /\ op.err.what = "DuplicateName"
    /\ DOMAIN seriesMap = Names

\* C11: getSeriesNames lists every stored name exactly once, size is the
\* number of names, empty holds iff size is 0 and hasSeries(n) iff n is
\* listed; a successful addSeries makes the name present and raises size by
\* one, a successful removeSeries makes it absent, lowers size by one and
\* leaves every other series as it was, and clear leaves size at 0.
QueriesAgree(map) ==
    LET names == getSeriesNames(map)
    IN  /\ \A n \in DOMAIN map : Cardinality({i \in 1 .. Len(names) : names[i] = n}) = 1
        /\ Range(names) = DOMAIN map
        /\ size(map) = Len(names)
        /\ empty(map) = (size(map) = 0)
        /\ \A n \in Names : hasSeries(map, n) = (n \in Range(names))

CollectionStep ==
    /\ QueriesAgree(seriesMap')
    /\ (op'.name \in {"addSeries", "addSeriesMove"} /\ op'.err = NoError) =>
         /\ hasSeries(seriesMap', op'.args[1])
         /\ size(seriesMap') = size(seriesMap) + 1
    /\ (op'.name = "removeSeries" /\ op'.err = NoError) =>
         /\ ~hasSeries(seriesMap', op'.args[1])
         /\ size(seriesMap') = size(seriesMap) - 1
         /\ \A n \in DOMAIN seriesMap \ {op'.args[1]} :
              hasSeries(seriesMap', n) /\ seriesMap'[n] = seriesMap[n]
    /\ op'.name = "clear" => size(seriesMap') = 0

CollectionQueries == [][CollectionStep]_vars

CollectionQueriesWitness ==
    /\ op.name = "removeSeries"
    /\ op.err = NoError
    /\ op.args[1] = NameOrder[1]
    /\ getSeriesNames(seriesMap) = <<NameOrder[2]>>
    /\ Len(seriesMap[NameOrder[2]].data) = 2

\* C12: the copying addSeries stores a Series with the values and
\* timestamps the caller's Series has at the call; a later mutation of the
\* caller's Series leaves the stored Series as it is, and a mutation made
\* through getSeries leaves the caller's Series as it is.
OwnershipStep ==
    /\ (op'.name = "addSeries" /\ op'.err = NoError) =>
         /\ seriesMap'[op'.args[1]] = SeriesOf(data, timestamps)
         /\ data' = data
         /\ timestamps' = timestamps
    /\ op'.name \in {"appendData", "clearData", "scaleData", "trimData"} =>
         seriesMap' = seriesMap
    /\ op'.name \in {"getSeries.appendData", "getSeries.clearData",
                     "getSeries.scaleData", "getSeries.trimData"} =>
         data' = data /\ timestamps' = timestamps

NoExternalAliasing == [][OwnershipStep]_vars

NoExternalAliasingWitness ==
    /\ op.name = "getSeries.appendData"
    /\ NameOrder[1] \in DOMAIN seriesMap
    /\ seriesMap[NameOrder[1]].data = <<1, 1>>
    /\ data = <<0>>

\* C13: normalizeData on fewer than 2 samples, or on 2 or more samples that
\* all have the same value, throws IoTDataInsufficientException and leaves
\* the values as they were.
IsConstant(d) == \A i \in 1 .. Len(d) : ~IsNanOrInf(d[i]) /\ d[i] = d[1]

NormalizeRefusesConstant ==
    (op.name = "normalizeData" /\ (Len(op.args[1]) < 2 \/ IsConstant(op.args[1]))) =>
        /\ op.err.class = "IoTDataInsufficientException"
        /\ data = op.args[1]

\* The vector a call returned.
ReturnedVector == returned[1]

QueryOf(o) == o.args[1]

\* C14: on a non-empty Series, duplicates among its timestamps included,
\* and for both methods, a query at or before the first stored timestamp
\* returns the first stored value and a query at or after the last stored
\* timestamp returns the value at the last index.
InterpolationClamp ==
    (op.name = "interpolateData" /\ op.err = NoError) =>
        \A k \in 1 .. Len(QueryOf(op)) :
            /\ QueryOf(op)[k] <= timestamps[1] => ReturnedVector[k] = data[1]
            /\ QueryOf(op)[k] >= timestamps[Len(timestamps)] =>
                 ReturnedVector[k] = data[Len(data)]

\* C15: for both methods a query time that equals a stored timestamp
\* returns, with no arithmetic, the value of a sample stored at that
\* timestamp.
AllHits(q, t) == \A k \in 1 .. Len(q) : \E i \in 1 .. Len(t) : t[i] = q[k]

ExactHit ==
    (op.name = "interpolateData" /\ data # <<>>) =>
        /\ op.err = NoError =>
             \A k \in 1 .. Len(QueryOf(op)) :
                 (\E i \in 1 .. Len(timestamps) : timestamps[i] = QueryOf(op)[k]) =>
                     \E i \in 1 .. Len(timestamps) :
                         /\ timestamps[i] = QueryOf(op)[k]
                         /\ ReturnedVector[k] = data[i]
        /\ (IsSortedSeq(QueryOf(op)) /\ AllHits(QueryOf(op), timestamps)) => op.err = NoError

ExactHitWitness ==
    /\ op.name = "interpolateData"
    /\ op.err = NoError
    /\ op.args[2] = "LINEAR"
    /\ timestamps = <<0, 1, 3>>
    /\ data = <<NaN, ToDouble(3), ToDouble(1)>>
    /\ QueryOf(op) = <<1>>
    /\ ReturnedVector = <<ToDouble(3)>>

\* C16 as stated: on a non-empty Series interpolateData throws and returns
\* nothing when the query times are not in non-decreasing order, and
\* otherwise returns one value per query time; the Series is unchanged.
InterpolateOrderStep ==
    (op'.name = "interpolateData" /\ data # <<>>) =>
        /\ data' = data
        /\ timestamps' = timestamps
        /\ IF IsSortedSeq(QueryOf(op'))
           THEN /\ op'.err = NoError
                /\ Len(returned') = 1
                /\ Len(returned'[1]) = Len(QueryOf(op'))
           ELSE op'.err # NoError /\ returned' = NoValue

InterpolateNeedsOrder == [][InterpolateOrderStep]_vars

\* A LINEAR query strictly between two stored samples of which one is not
\* finite: the interpolated value is NaN.
NonFiniteBracket(d, t, q, method) ==
    /\ method = "LINEAR"
    /\ \E k \in 1 .. Len(q) :
         /\ \A i \in 1 .. Len(t) : t[i] # q[k]
         /\ \E i \in 1 .. Len(t) - 1 :
              /\ t[i] < q[k]
              /\ q[k] < t[i + 1]
              /\ (IsNanOrInf(d[i]) \/ IsNanOrInf(d[i + 1]))

\* C16 as amended: unsorted query times are refused; sorted ones give one
\* value per query time unless a linear interpolation between two stored
\* samples gives NaN or infinity, which is refused as an invalid value; the
\* Series is unchanged in every case.
InterpolateOrderOrValueStep ==
    (op'.name = "interpolateData" /\ data # <<>>) =>
        /\ data' = data
        /\ timestamps' = timestamps
        /\ IF ~IsSortedSeq(QueryOf(op'))
           THEN op'.err = Error("IoTDataException", "UnsortedQuery") /\ returned' = NoValue
           ELSE IF NonFiniteBracket(data, timestamps, QueryOf(op'), op'.args[2])
           THEN op'.err = Error("IoTDataException", "InvalidValue") /\ returned' = NoValue
           ELSE /\ op'.err = NoError
                /\ Len(returned') = 1
                /\ Len(returned'[1]) = Len(QueryOf(op'))

InterpolateNeedsOrderAndFiniteValues == [][InterpolateOrderOrValueStep]_vars

InterpolateOrderWitness ==
    /\ op.name = "interpolateData"
    /\ op.err = Error("IoTDataException", "UnsortedQuery")
    /\ QueryOf(op) = <<2, 1>>
    /\ Len(data) = 3

\* C17: calculateMovingAverage(w) on n finite values with 1 <= w <= n
\* returns n - w + 1 elements, element k the sum of values k .. k+w-1
\* divided by w; w = 0 and w > n throw IoTDataInsufficientException.
RECURSIVE DirectSum(_, _, _)
DirectSum(d, from, to) ==
    IF from > to THEN Fin(0, 0) ELSE FAdd(DirectSum(d, from, to - 1), d[to])

MovingAverageIsWindowMean ==
    (/\ op.name = "calculateMovingAverage"
     /\ data # <<>>
     /\ \A i \in 1 .. Len(data) : ~IsNanOrInf(data[i])) =>
        LET w == op.args[1]
            n == Len(data)
        IN  IF 1 <= w /\ w <= n
            THEN /\ op.err = NoError
                 /\ Len(ReturnedVector) = n - w + 1
                 /\ \A k \in 1 .. n - w + 1 :
                      ReturnedVector[k] = FDiv(DirectSum(data, k, k + w - 1), ToDouble(w))
            ELSE op.err.class = "IoTDataInsufficientException"

\* C18: on an empty Series, whatever the arguments, calculateMean, min,
\* max, median, calculateMovingAverage, calculateWindowedMean and
\* interpolateData throw IoTDataEmptyException, calculateStandardDeviation,
\* normalizeData and resampleData throw IoTDataInsufficientException, and
\* none returns a value; calculateStandardDeviation on one sample returns 0.
EmptySeriesErrors ==
    /\ data = <<>> =>
         /\ op.name \in {"calculateMean", "min", "max", "median", "calculateMovingAverage",
                         "calculateWindowedMean", "interpolateData"} =>
              op.err.class = "IoTDataEmptyException" /\ returned = NoValue
         /\ op.name \in {"calculateStandardDeviation", "normalizeData", "resampleData"} =>
              op.err.class = "IoTDataInsufficientException" /\ returned = NoValue
    /\ (op.name = "calculateStandardDeviation" /\ Len(data) = 1) =>
         op.err = NoError /\ returned = <<Fin(0, 0)>>

\* C19: when importDataFromFile fails because of what the file holds (a row
\* not of the shape '<int>,<value>', characters after the value, no data
\* row), the class of the exception differs from the class thrown when the
\* file cannot be opened.
OpenFailure == CHOOSE r \in importDataFromFile(<<>>, <<>>, NoFile) : TRUE

ContentErrorKindDiffers ==
    (op.name = "importDataFromFile" /\ file.exists /\ op.err # NoError) =>
        op.err.class # OpenFailure.err.class

\* C20: the sort is stable: after a construction with explicit timestamps
\* the samples are in timestamp order with the samples of one timestamp in
\* the order the caller gave them, so the (timestamp, value) pairs are the
\* caller's.
StableOrder(t) ==
    CHOOSE p \in IndexPerms(Len(t)) :
        \A i, j \in 1 .. Len(t) :
            i < j => (t[p[i]] < t[p[j]] \/ (t[p[i]] = t[p[j]] /\ p[i] < p[j]))

SortedStably(d0, t0, d1, t1) ==
    /\ d1 = [i \in 1 .. Len(d0) |-> d0[StableOrder(t0)[i]]]
    /\ t1 = [i \in 1 .. Len(t0) |-> t0[StableOrder(t0)[i]]]

SortRestoreIsStable ==
    (op.name = "construct" /\ Len(op.args) = 2 /\ op.err = NoError) =>
        SortedStably(op.args[1], op.args[2], data, timestamps)

\* C21: after every appendData the values and timestamps are those of a
\* reference Series that appends the sample and then sorts stably by
\* timestamp, whether or not the call went through ensureSorted.
AppendStepMatchesReference ==
    op'.name = "appendData" =>
        SortedStably(Append(data, op'.args[1]), Append(timestamps, op'.args[2]),
                     data', timestamps')

AppendMatchesReference == [][AppendStepMatchesReference]_vars

\* The query times of a call that lie strictly inside the stored range on
\* no stored timestamp, and the samples that bracket such a time.
IsInterior(q) ==
    /\ timestamps # <<>>
    /\ timestamps[1] < q
    /\ q < timestamps[Len(timestamps)]
    /\ \A i \in 1 .. Len(timestamps) : timestamps[i] # q

Before(q) == CHOOSE i \in 1 .. Len(timestamps) - 1 : timestamps[i] < q /\ q < timestamps[i + 1]

MinOf(a, b) == IF a <= b THEN a ELSE b

MaxOf(a, b) == IF a <= b THEN b ELSE a

\* C22: a LINEAR query strictly between two stored samples (t0, y0) and
\* (t1, y1) of an IoTData<int> returns y0 + (y1 - y0) * (t - t0) / (t1 - t0)
\* converted to int, a value from min(y0, y1) to max(y0, y1).
LinearFormula ==
    (op.name = "interpolateData" /\ op.args[2] = "LINEAR" /\ op.err = NoError) =>
        \A k \in 1 .. Len(QueryOf(op)) :
            LET q == QueryOf(op)[k]
                i == Before(q)
                t0 == timestamps[i]
                t1 == timestamps[i + 1]
                y0 == data[i]
                y1 == data[i + 1]
            IN  IsInterior(q) =>
                  /\ ReturnedVector[k] = TruncDiv(y0 * (t1 - t0) + (y1 - y0) * (q - t0), t1 - t0)
                  /\ MinOf(y0, y1) <= ReturnedVector[k]
                  /\ ReturnedVector[k] <= MaxOf(y0, y1)

\* C23: a NEAREST_NEIGHBOR query strictly between two stored samples
\* (t0, y0) and (t1, y1) returns y0 when t - t0 <= t1 - t and y1
\* otherwise; a query as far from both returns y0.
NearestNeighbour ==
    (op.name = "interpolateData" /\ op.args[2] = "NEAREST_NEIGHBOR" /\ op.err = NoError) =>
        \A k \in 1 .. Len(QueryOf(op)) :
            LET q == QueryOf(op)[k]
                i == Before(q)
            IN  IsInterior(q) =>
                  ReturnedVector[k] = IF q - timestamps[i] <= timestamps[i + 1] - q
                                      THEN data[i]
                                      ELSE data[i + 1]

NearestNeighbourWitness ==
    /\ op.name = "interpolateData"
    /\ op.args[2] = "NEAREST_NEIGHBOR"
    /\ op.err = NoError
    /\ timestamps = <<1, 3>>
    /\ data = <<ToDouble(1), ToDouble(3)>>
    /\ QueryOf(op) = <<2>>
    /\ ReturnedVector = <<ToDouble(1)>>

\* C24: calculateWindowedMean(w) on n finite values with w >= 1 returns n
\* elements, element i the mean of the values from max(1, i - w + 1) to i;
\* w = 0 throws IoTDataInsufficientException; for w <= n element k of
\* calculateMovingAverage(w) is element k + w - 1 of calculateWindowedMean(w).
WindowedMeanIsWindowMean ==
    (/\ op.name = "calculateWindowedMean"
     /\ data # <<>>
     /\ \A i \in 1 .. Len(data) : ~IsNanOrInf(data[i])) =>
        LET w == op.args[1]
            n == Len(data)
            moving == calculateMovingAverage(data, w)
        IN  IF w = 0 THEN op.err.class = "IoTDataInsufficientException"
            ELSE /\ op.err = NoError
                 /\ Len(ReturnedVector) = n
                 /\ \A i \in 1 .. n :
                      ReturnedVector[i] =
                          IF i < w THEN FDiv(DirectSum(data, 1, i), ToDouble(i))
                          ELSE FDiv(DirectSum(data, i - w + 1, i), ToDouble(w))
                 /\ w <= n =>
                      /\ moving.err = NoError
                      /\ \A k \in 1 .. n - w + 1 : moving.value[1][k] = ReturnedVector[k + w - 1]

\* C25: trimData(p) with 0 <= p < 100 on n >= 1 samples removes
\* k = floor(n * p / 200) samples from the start and k from the end, each
\* value kept with its timestamp, or clears the Series when 2k >= n; p < 0
\* and p >= 100 throw a range error and leave the Series as it was; on an
\* empty Series a valid p changes nothing.
TrimStep ==
    op'.name = "trimData" =>
        LET p == op'.args[1]
            n == Len(data)
            k == (n * p) \div 200
        IN  IF p < 0 \/ p >= 100
            THEN /\ op'.err = Error("std::out_of_range", "RangeError")
                 /\ data' = data
                 /\ timestamps' = timestamps
            ELSE /\ op'.err = NoError
                 /\ IF n = 0 THEN data' = <<>> /\ timestamps' = <<>>
                    ELSE IF 2 * k >= n THEN data' = <<>> /\ timestamps' = <<>>
                    ELSE /\ data' = [i \in 1 .. n - 2 * k |-> data[k + i]]
                         /\ timestamps' = [i \in 1 .. n - 2 * k |-> timestamps[k + i]]

NthKept(predicate, k) ==
    CHOOSE i \in 1 .. Len(data) :
        /\ ~Holds(predicate, data[i])
        /\ Cardinality({j \in 1 .. i : ~Holds(predicate, data[j])}) = k

FilterStep ==
    op'.name = "filterOutliers" =>
        LET predicate == op'.args[1]
            kept == Cardinality({i \in 1 .. Len(data) : ~Holds(predicate, data[i])})
        IN  /\ op'.err = NoError
            /\ Len(data') = kept
            /\ Len(timestamps') = kept
            /\ \A k \in 1 .. kept :
                 /\ data'[k] = data[NthKept(predicate, k)]
                 /\ timestamps'[k] = timestamps[NthKept(predicate, k)]
            /\ \A k \in 1 .. Len(data') : ~Holds(predicate, data'[k])
            /\ IsSortedSeq(timestamps) => IsSortedSeq(timestamps')

FilterRemovesExactly == [][FilterStep]_vars

FilterWitness ==
    /\ op.name = "filterOutliers"
    /\ op.args = <<"AbsGreaterThanOne">>
    /\ data = <<1>>
    /\ timestamps = <<4>>

\* C27: resampleData(targetSize) on at least 2 samples with targetSize >= 2
\* returns targetSize values, the first the first stored value and the last
\* the last stored value; with fewer than 2 samples or targetSize < 2 it
\* throws IoTDataInsufficientException.
ResampleReturnsTargetSize ==
    op.name = "resampleData" =>
        IF Len(data) >= 2 /\ op.args[1] >= 2
        THEN /\ op.err = NoError
             /\ returned # NoValue
             /\ Len(ReturnedVector) = op.args[1]
             /\ ReturnedVector[1] = data[1]
             /\ ReturnedVector[op.args[1]] = data[Len(data)]
        ELSE op.err.class = "IoTDataInsufficientException"

\* C28: scaleData and normalizeData leave the timestamps and the number of
\* samples as they were, and a scaleData with a NaN or infinite factor
\* throws and leaves the values too; calculateMean,
\* calculateStandardDeviation, min, max, median, calculateMovingAverage,
\* calculateWindowedMean, resampleData, interpolateData and
\* exportDataToFile leave values and timestamps as they were, whether they
\* return or throw.
FrameStep ==
    /\ op'.name \in {"scaleData", "normalizeData"} =>
         /\ timestamps' = timestamps
         /\ Len(data') = Len(data)
    /\ (op'.name = "scaleData" /\ op'.args[1].kind \in {"NaN", "Inf"}) =>
         /\ op'.err = Error("IoTDataException", "InvalidValue")
         /\ data' = data
    /\ op'.name \in {"calculateMean", "calculateStandardDeviation", "min", "max", "median",
                     "calculateMovingAverage", "calculateWindowedMean", "resampleData",
                     "interpolateData", "exportDataToFile"} =>
         /\ data' = data
         /\ timestamps' = timestamps

FrameOfNonStructuralCalls == [][FrameStep]_vars

FrameWitness ==
    /\ op.name = "scaleData"
    /\ op.args[1].kind = "NaN"
    /\ op.err = Error("IoTDataException", "InvalidValue")
    /\ data = <<1, 2>>
    /\ timestamps = <<0, 2>>

\* C29: an accepted trimData(p) on n >= 1 samples has k = floor(n * p / 200)
\* with 2k < n and leaves at least one sample; a Series that holds samples
\* becomes empty only by clearData, by filterOutliers or by an
\* importDataFromFile that fails.
NeverEmptiesStep ==
    /\ (op'.name = "trimData" /\ op'.err = NoError /\ data # <<>>) =>
         /\ 2 * ((Len(data) * op'.args[1]) \div 200) < Len(data)
         /\ data' # <<>>
    /\ (data # <<>> /\ data' = <<>>) =>
         \/ op'.name \in {"clearData", "filterOutliers"}
         \/ op'.name = "importDataFromFile" /\ op'.err # NoError

TrimNeverEmpties == [][NeverEmptiesStep]_vars

TrimNeverEmptiesWitness ==
    /\ op.name = "trimData"
    /\ op.args = <<99>>
    /\ op.err = NoError
    /\ Len(data) = 1
    /\ timestamps = <<2>>

\* C30: an importDataFromFile that cannot open the file leaves the values
\* and timestamps as they were; one that fails on a malformed row or on a
\* file without data rows leaves none of the earlier samples and exactly
\* the rows before the failing line, in file order; one that succeeds
\* leaves the rows of the file and nothing else.
Refused(lines) == {i \in 1 .. Len(lines) : ParseRow(lines[i]).kind \notin {"row", "blank"}}

FailingLine(lines) ==
    IF Refused(lines) = {} THEN Len(lines) + 1
    ELSE CHOOSE i \in Refused(lines) : \A j \in Refused(lines) : i <= j

RowLinesBefore(lines, f) ==
    SelectSeq([i \in 1 .. f - 1 |-> lines[i]], LAMBDA line : ParseRow(line).kind = "row")

ValuesBefore(lines, f) ==
    [i \in 1 .. Len(RowLinesBefore(lines, f)) |-> ParseRow(RowLinesBefore(lines, f)[i]).value]

TimestampsBefore(lines, f) ==
    [i \in 1 .. Len(RowLinesBefore(lines, f)) |->
        FromTimeT(ParseRow(RowLinesBefore(lines, f)[i]).epochSeconds)]

FailedImportStep ==
    op'.name = "importDataFromFile" =>
        LET f == FailingLine(file.lines)
            v == ValuesBefore(file.lines, f)
            t == TimestampsBefore(file.lines, f)
        IN  IF ~file.exists
            THEN /\ op'.err # NoError
                 /\ data' = data
                 /\ timestamps' = timestamps
            ELSE IF Refused(file.lines) # {} \/ v = <<>>
            THEN /\ op'.err # NoError
                 /\ data' = v
                 /\ timestamps' = t
            ELSE /\ op'.err = NoError
                 /\ Len(data') = Len(v)
                 /\ SamePairs(data', timestamps', v, t)

====
